---- MODULE Spec2Model ----
(***************************************************************************)
(* Open/R LinkMonitor: adjacency lifecycle, KvStore peer derivation,       *)
(* metric pipeline, hold timer and advertisement throttle, modelled from   *)
(* openr/link-monitor/LinkMonitor.cpp.                                     *)
(*                                                                         *)
(* Strings that the code compares (interface names) are sequences of       *)
(* character codes, so that std::string's lexicographic order is computed  *)
(* and not assumed.  64-bit rtt values are kept in two limbs (see Int64)   *)
(* so that the 32-bit cast of getRttMetric is computed at its real width.  *)
(***************************************************************************)
EXTENDS Integers, Sequences, FiniteSets, TLC

VARIABLES
  config,                         \* constructor arguments (immutable after Init)
  adjacencies,                    \* adjacencies_ : (node, if) -> AdjacencyValue
  peers,                          \* peers_ : area -> node -> KvStorePeerValue
  state,                          \* state_ : thrift::LinkMonitorState
  interfaces,                     \* interfaces_ : ifName -> InterfaceEntry
  ifIndexToName,                  \* ifIndexToName_
  adjHoldTimer,                   \* adjHoldTimer_->isScheduled()
  advertiseAdjacenciesThrottled,  \* advertiseAdjacenciesThrottled_->isActive()
  advertiseIfaceAddrThrottled,    \* advertiseIfaceAddrThrottled_->isActive()
  advertiseIfaceAddrTimer,        \* advertiseIfaceAddrTimer_->isScheduled()
  kvStoreKeys,                    \* areas whose adj:<node> key has been persisted
  kvPeerSessions,                 \* area -> set of <<node, spec>>: the requests replayed
  aborted,                        \* a CHECK failed: the process is gone
  lastOp,                         \* the handler that ran last, with its arguments
  emitted,                        \* what the last handler pushed / wrote
  throttledPending,               \* throttled requests absorbed since the throttle armed
  ret,                            \* return value of the last pure-function call
  stepParity,                     \* flips on every handler run
  promise,                        \* how the last handler fulfilled its caller's promise
  args,                           \* argument of the pure-function calls
  kvStore,                        \* KvStore of each node: its key-values and counters
  kvInFlight,                     \* publications sent to a peer and not yet received
  kvClient,                       \* what the writers of the KvStores have done so far
  fibers,                         \* the event fibers, each with the queue it reads
  interfaceDbSync,                \* interfaceDbSyncTimer_ and expBackoff_
  rpc,                            \* closures the RPC callers have scheduled onto the loop
  platformAgent,                  \* the platform agent's main() and its threads
  adjDbInKvStore                  \* observed area -> the adj:<node> value last written

vars == <<config, adjacencies, peers, state, interfaces, ifIndexToName,
          adjHoldTimer, advertiseAdjacenciesThrottled,
          advertiseIfaceAddrThrottled, advertiseIfaceAddrTimer,
          kvStoreKeys, kvPeerSessions, aborted, lastOp, emitted,
          throttledPending, ret, stepParity, promise, args,
          kvStore, kvInFlight, kvClient, fibers,
          interfaceDbSync, rpc, platformAgent, adjDbInKvStore>>

\* The KvStores of the nodes, which LinkMonitor's handlers do not touch
kvVars == <<kvStore, kvInFlight, kvClient>>

\* The interface sync timer, the RPC callers and the platform agent
hostVars == <<interfaceDbSync, rpc, platformAgent>>

-----------------------------------------------------------------------------
(* Input domains *)

\* Remote node names.
Nodes == {"node-b", "node-c"}

\* Interface names as ASCII codes.  Lexicographically "eth1" < "eth10" < "eth2",
\* although 10 > 2 and "eth10" is the longest.
Eth1 == <<101, 116, 104, 49>>
Eth10 == <<101, 116, 104, 49, 48>>
Eth2 == <<101, 116, 104, 50>>
Lo == <<108, 111>>

\* Local interfaces neighbors are discovered on.
Ifaces == {Eth10, Eth2}

\* Configured areas (areas_).
Areas == {"area1", "area2"}

\* Transport addresses a neighbor may announce (with the ports, one token).
Addrs == {"fe80::1", "fe80::2"}

\* Most throttled requests counted while the throttle is armed (saturating).
MaxPending == 2

\* Most entries of an adjacency map drawn as input of getPeersFromAdjacencies.
MaxAdj == 3

-----------------------------------------------------------------------------
(* Maps (std::unordered_map) as functions with a finite domain *)

EmptyMap == [x \in {} |-> FALSE]

MapPut(m, k, v) == [x \in (DOMAIN m) \cup {k} |-> IF x = k THEN v ELSE m[x]]

MapErase(m, k) == [x \in (DOMAIN m) \ {k} |-> m[x]]

RECURSIVE SetToSeq(_)
SetToSeq(S) ==
  IF S = {} THEN <<>>
  ELSE LET x == CHOOSE y \in S : TRUE IN <<x>> \o SetToSeq(S \ {x})

RECURSIVE Perms(_)
Perms(S) ==
  IF S = {} THEN {<<>>}
  ELSE UNION {{<<x>> \o p : p \in Perms(S \ {x})} : x \in S}

\* s < t for std::string: lexicographic on the characters
RECURSIVE StrLess(_, _)
StrLess(s, t) ==
  IF t = <<>> THEN FALSE
  ELSE IF s = <<>> THEN TRUE
  ELSE IF Head(s) # Head(t) THEN Head(s) < Head(t)
  ELSE StrLess(Tail(s), Tail(t))

-----------------------------------------------------------------------------
(* The KvStores as constructed *)

\* The nodes of one area, each running a KvStore
KvNodes == {"node-a", "node-b", "node-c"}

\* The keys written
KvKeys == {"k1"}

\* Counters a KvStore surfaces
KvCounters == [expired_key_vals |-> 0]

\* A KvStore that holds no key
EmptyKvStore ==
  [keyVals |-> EmptyMap, receivedAt |-> EmptyMap, ttlCountdown |-> EmptyMap,
   counters |-> KvCounters]

\* Writers that have written and refreshed nothing yet, at time 0
IdleKvClient == [written |-> {}, refreshes |-> 0, stopped |-> FALSE, now |-> 0]

KvStoresInit ==
  /\ kvStore = [n \in KvNodes |-> EmptyKvStore]
  /\ kvInFlight = {}
  /\ kvClient = IdleKvClient

-----------------------------------------------------------------------------
(* The event fibers and their queues *)

\* A queue as constructed: open and empty; `published` and `processed` keep
\* what was pushed to it and what its fiber has handled
NewQueue == [pending |-> <<>>, closed |-> FALSE, published |-> <<>>, processed |-> <<>>]

\* A fiber of addFiberTask, reading queue q
NewFiber == [q |-> NewQueue, terminated |-> FALSE]

FibersInit == fibers = [neighbor |-> NewFiber, netlink |-> NewFiber]

\* The fiber that handles an event of the given type
FiberOf(eventType) ==
  IF eventType \in {"NEIGHBOR_UP", "NEIGHBOR_RESTARTED", "NEIGHBOR_RESTARTING",
                    "NEIGHBOR_DOWN", "NEIGHBOR_RTT_CHANGE"} THEN "neighbor"
  ELSE IF eventType \in {"Link", "IfAddress"} THEN "netlink"
  ELSE "none"

\* q.get() of the fiber gave the handler that ran as `op` the head of the
\* queue, when the event came through the queue
fiberGot(fbs, op) ==
  IF FiberOf(op.op) # "none" /\ fbs[FiberOf(op.op)].q.pending # <<>>
  THEN [fbs EXCEPT ![FiberOf(op.op)].q.pending = Tail(@),
                   ![FiberOf(op.op)].q.processed = Append(@, op)]
  ELSE fbs

-----------------------------------------------------------------------------
(* The interface sync timer, the RPC callers and the platform agent as      *)
(* constructed                                                               *)

\* Constants::kInitialBackoff, kMaxBackoff and kPlatformSyncInterval, in ms
kInitialBackoff == 64
kMaxBackoff == 8192
kPlatformSyncInterval == 60000

\* The constructor schedules interfaceDbSyncTimer_ after 100 ms; expBackoff_
\* has no error to report.  `timer` is <<delay>> while the timer is scheduled
\* and <<>> while it is not, `synced` tells whether the last sync succeeded and
\* `failed` counts the syncs that failed so far
NewInterfaceDbSync ==
  [timer |-> <<100>>, currentBackoff |-> 0, synced |-> FALSE, failed |-> 0]

\* No RPC has been called.  `pending` holds the closures scheduled onto the
\* event loop and not yet run, `accesses` which thread has touched which member
\* of LinkMonitor in the RPCs
NewRpc == [pending |-> <<>>, accesses |-> {}]

\* The platform agent before main() runs
NewPlatformAgent ==
  [pc |-> "init",
   enable_netlink_system_handler |-> TRUE,
   enable_netlink_fib_handler |-> TRUE,
   allThreads |-> <<>>,
   running |-> {},
   stopRequested |-> {},
   finished |-> {},
   joined |-> {},
   exit |-> "none"]

\* kvStoreClient_->persistKey for each database written in one handler run:
\* the KvStore of the area holds it as the value of adj:<node>.  `written` has
\* the areas whose KvStore the run observes, <<>> standing for no value yet
persistKeys(written, persistKey) ==
  [a \in DOMAIN written |->
     IF a \in DOMAIN persistKey THEN <<persistKey[a]>> ELSE written[a]]

HostInit(observed) ==
  /\ adjDbInKvStore = [a \in observed |-> <<>>]
  /\ interfaceDbSync = NewInterfaceDbSync
  /\ rpc = NewRpc
  /\ platformAgent = NewPlatformAgent

\* The members of LinkMonitor the closure of an RPC reads or writes
closureAccesses(op) ==
  IF op = "setNodeOverload" THEN {"adjacencies_", "state_"}
  ELSE IF op = "setInterfaceOverload" THEN {"interfaces_", "state_"}
  ELSE IF op = "setLinkMetric" THEN {"interfaces_", "state_"}
  ELSE IF op = "setAdjacencyMetric" THEN {"adjacencies_", "state_"}
  ELSE IF op = "getInterfaces" THEN {"interfaces_", "state_"}
  ELSE IF op = "getAdjacencies" THEN {"adjacencies_", "state_"}
  ELSE {}

\* The event loop ran the closure at the head of its queue as handler `op`
closureRan(r, op) ==
  IF r.pending # <<>> /\ Head(r.pending).op = op.op
  THEN [r EXCEPT !.pending = Tail(@),
                 !.accesses = @ \cup {[thread |-> "evb", member |-> m]
                                        : m \in closureAccesses(op.op)}]
  ELSE r

-----------------------------------------------------------------------------
(* 64-bit rtt values and getRttMetric *)

\* An int64 v is [neg, hi, lo] with |v| = hi * (100 * 2^16) + lo and
\* 0 <= lo < 100 * 2^16, so that |v| / 100 = hi * 2^16 + lo \div 100.
Int64(neg, hi, lo) == [neg |-> neg, hi |-> hi, lo |-> lo]

Zero64 == Int64(FALSE, 0, 0)

\* rttUs / 100 in int64 (C++ division truncates toward zero):
\* [neg, qh, ql] with |q| = qh * 2^16 + ql, ql < 2^16
Quot100(v) ==
  LET qh == v.hi
      ql == v.lo \div 100
  IN [neg |-> v.neg /\ (qh # 0 \/ ql # 0), qh |-> qh, ql |-> ql]

\* (int) of an int64 quotient: the low 32 bits, read as two's complement
CastInt32(q) ==
  LET h == q.qh % (2^16)
      l == q.ql
      nh == IF ~q.neg THEN h
            ELSE IF l = 0 THEN (2^16 - h) % (2^16)
            ELSE 2^16 - 1 - h
      nl == IF ~q.neg \/ l = 0 THEN l ELSE 2^16 - l
  IN IF nh >= 2^15 THEN (nh - 2^16) * (2^16) + nl ELSE nh * (2^16) + nl

IntMax(a, b) == IF a >= b THEN a ELSE b

getRttMetric(rttUs) == IntMax(CastInt32(Quot100(rttUs)), 1)

-----------------------------------------------------------------------------
(* Peer derivation *)

\* createPeerSpec(repUrl, peerAddr, ctrlPort): repUrl and peerAddr are formatted
\* from the neighbor's address (and ports) and the local interface name
createPeerSpec(localIfName, addr) == [ifName |-> localIfName, addr |-> addr]

\* Variant of neighborToIfaceLoop that does not skip restarting adjacencies
RECURSIVE neighborToIfaceLoopWithRestarting(_, _, _, _)
neighborToIfaceLoopWithRestarting(adjs, area, order, neighborToIface) ==
  IF order = <<>> THEN neighborToIface
  ELSE LET adjKey == Head(order)
           nodeName == adjKey[1]
           iface == adjKey[2]
       IN IF adjs[adjKey].area # area
          THEN neighborToIfaceLoopWithRestarting(adjs, area, Tail(order), neighborToIface)
          ELSE IF nodeName \notin DOMAIN neighborToIface
          THEN neighborToIfaceLoopWithRestarting(adjs, area, Tail(order),
                                   MapPut(neighborToIface, nodeName, iface))
          ELSE IF StrLess(iface, neighborToIface[nodeName])
          THEN neighborToIfaceLoopWithRestarting(adjs, area, Tail(order),
                                   MapPut(neighborToIface, nodeName, iface))
          ELSE neighborToIfaceLoopWithRestarting(adjs, area, Tail(order), neighborToIface)

\* Variant of neighborToIfaceLoop that keeps the first interface it meets
RECURSIVE neighborToIfaceLoopFirstWins(_, _, _, _)
neighborToIfaceLoopFirstWins(adjs, area, order, neighborToIface) ==
  IF order = <<>> THEN neighborToIface
  ELSE LET adjKey == Head(order)
           nodeName == adjKey[1]
           iface == adjKey[2]
       IN IF adjs[adjKey].area # area \/ adjs[adjKey].isRestarting
          THEN neighborToIfaceLoopFirstWins(adjs, area, Tail(order), neighborToIface)
          ELSE IF nodeName \notin DOMAIN neighborToIface
          THEN neighborToIfaceLoopFirstWins(adjs, area, Tail(order),
                                   MapPut(neighborToIface, nodeName, iface))
          ELSE neighborToIfaceLoopFirstWins(adjs, area, Tail(order), neighborToIface)

\* The first loop of getPeersFromAdjacencies, over the map in iteration
\* order `order`: neighborToIface
RECURSIVE neighborToIfaceLoop(_, _, _, _)
neighborToIfaceLoop(adjs, area, order, neighborToIface) ==
  IF order = <<>> THEN neighborToIface
  ELSE LET adjKey == Head(order)
           adjValue == adjs[adjKey]
           nodeName == adjKey[1]
           iface == adjKey[2]
       IN IF adjValue.area # area \/ adjValue.isRestarting
          THEN neighborToIfaceLoop(adjs, area, Tail(order), neighborToIface)
          ELSE IF nodeName \notin DOMAIN neighborToIface
          THEN neighborToIfaceLoop(adjs, area, Tail(order),
                                   MapPut(neighborToIface, nodeName, iface))
          ELSE IF StrLess(iface, neighborToIface[nodeName])
          THEN neighborToIfaceLoop(adjs, area, Tail(order),
                                   MapPut(neighborToIface, nodeName, iface))
          ELSE neighborToIfaceLoop(adjs, area, Tail(order), neighborToIface)

\* getPeersFromAdjacencies with the unordered_map's iteration order made explicit
getPeersFromAdjacenciesOrd(adjs, area, order) ==
  LET neighborToIface == neighborToIfaceLoop(adjs, area, order, EmptyMap)
  IN [n \in DOMAIN neighborToIface |-> adjs[<<n, neighborToIface[n]>>].peerSpec]

\* Inside the handlers one (arbitrary, fixed) iteration order is used
getPeersFromAdjacencies(adjs, area) ==
  getPeersFromAdjacenciesOrd(adjs, area, SetToSeq(DOMAIN adjs))

\* Variant of advertiseKvStorePeers that deletes every old peer, whether or not
\* it is still a peer
advertiseKvStorePeersDelAll(adjs, peersTbl, area, upPeers) ==
  LET oldPeers == peersTbl[area]
      newPeers == getPeersFromAdjacencies(adjs, area)
      toDelPeers == DOMAIN oldPeers
      areaPeers ==
        [n \in DOMAIN newPeers |->
           [tPeerSpec |-> newPeers[n],
            initialSynced |-> IF n \in DOMAIN oldPeers
                              THEN oldPeers[n].initialSynced ELSE FALSE]]
      changed == {n \in DOMAIN newPeers :
                    ~(n \in DOMAIN oldPeers /\ oldPeers[n].tPeerSpec = newPeers[n])}
      readded == {n \in DOMAIN upPeers :
                    /\ n \in DOMAIN areaPeers
                    /\ n \notin changed
                    /\ upPeers[n] = areaPeers[n].tPeerSpec}
      toAddPeers == [n \in changed \cup readded |->
                       IF n \in changed THEN newPeers[n] ELSE upPeers[n]]
      req == [area |-> area, peerDelParams |-> toDelPeers, peerAddParams |-> toAddPeers]
  IN [peers |-> [peersTbl EXCEPT ![area] = areaPeers],
      checkFailed |-> \E n \in DOMAIN upPeers : n \notin DOMAIN areaPeers,
      pushed |-> IF toDelPeers # {} \/ DOMAIN toAddPeers # {} THEN <<req>> ELSE <<>>]

\* Variant of advertiseKvStorePeers without the upPeers loop: a peer is added
\* only when it is new or its spec changed
advertiseKvStorePeersNoUpPeers(adjs, peersTbl, area, upPeers) ==
  LET oldPeers == peersTbl[area]
      newPeers == getPeersFromAdjacencies(adjs, area)
      toDelPeers == {n \in DOMAIN oldPeers : n \notin DOMAIN newPeers}
      areaPeers ==
        [n \in DOMAIN newPeers |->
           [tPeerSpec |-> newPeers[n],
            initialSynced |-> IF n \in DOMAIN oldPeers
                              THEN oldPeers[n].initialSynced ELSE FALSE]]
      changed == {n \in DOMAIN newPeers :
                    ~(n \in DOMAIN oldPeers /\ oldPeers[n].tPeerSpec = newPeers[n])}
      toAddPeers == [n \in changed |-> newPeers[n]]
      req == [area |-> area, peerDelParams |-> toDelPeers, peerAddParams |-> toAddPeers]
  IN [peers |-> [peersTbl EXCEPT ![area] = areaPeers],
      checkFailed |-> \E n \in DOMAIN upPeers : n \notin DOMAIN areaPeers,
      pushed |-> IF toDelPeers # {} \/ DOMAIN toAddPeers # {} THEN <<req>> ELSE <<>>]

\* Variant of advertiseKvStorePeers that adds a peer only when it is new, not
\* when its spec changed
advertiseKvStorePeersNewOnly(adjs, peersTbl, area, upPeers) ==
  LET oldPeers == peersTbl[area]
      newPeers == getPeersFromAdjacencies(adjs, area)
      toDelPeers == {n \in DOMAIN oldPeers : n \notin DOMAIN newPeers}
      areaPeers ==
        [n \in DOMAIN newPeers |->
           [tPeerSpec |-> newPeers[n],
            initialSynced |-> IF n \in DOMAIN oldPeers
                              THEN oldPeers[n].initialSynced ELSE FALSE]]
      changed == {n \in DOMAIN newPeers : n \notin DOMAIN oldPeers}
      checkFailed == \E n \in DOMAIN upPeers : n \notin DOMAIN areaPeers
      readded == {n \in DOMAIN upPeers :
                    /\ n \in DOMAIN areaPeers
                    /\ n \notin changed
                    /\ upPeers[n] = areaPeers[n].tPeerSpec}
      toAddPeers == [n \in changed \cup readded |->
                       IF n \in changed THEN newPeers[n] ELSE upPeers[n]]
      req == [area |-> area, peerDelParams |-> toDelPeers, peerAddParams |-> toAddPeers]
  IN [peers |-> [peersTbl EXCEPT ![area] = areaPeers],
      checkFailed |-> checkFailed,
      pushed |-> IF toDelPeers # {} \/ DOMAIN toAddPeers # {} THEN <<req>> ELSE <<>>]

\* advertiseKvStorePeers(area, upPeers): the new peers_ table and the request.
\* oldPeers is moved out of peers_[area], which leaves peers_[area] empty, so the
\* emplace of every new peer rebuilds the table from newPeers.
advertiseKvStorePeers(adjs, peersTbl, area, upPeers) ==
  LET oldPeers == peersTbl[area]
      newPeers == getPeersFromAdjacencies(adjs, area)
      toDelPeers == {n \in DOMAIN oldPeers : n \notin DOMAIN newPeers}
      areaPeers ==
        [n \in DOMAIN newPeers |->
           [tPeerSpec |-> newPeers[n],
            initialSynced |-> IF n \in DOMAIN oldPeers
                              THEN oldPeers[n].initialSynced ELSE FALSE]]
      changed == {n \in DOMAIN newPeers :
                    ~(n \in DOMAIN oldPeers /\ oldPeers[n].tPeerSpec = newPeers[n])}
      checkFailed == \E n \in DOMAIN upPeers : n \notin DOMAIN areaPeers
      readded == {n \in DOMAIN upPeers :
                    /\ n \in DOMAIN areaPeers
                    /\ n \notin changed
                    /\ upPeers[n] = areaPeers[n].tPeerSpec}
      toAddPeers == [n \in changed \cup readded |->
                       IF n \in changed THEN newPeers[n] ELSE upPeers[n]]
      req == [area |-> area, peerDelParams |-> toDelPeers, peerAddParams |-> toAddPeers]
  IN [peers |-> [peersTbl EXCEPT ![area] = areaPeers],
      checkFailed |-> checkFailed,
      pushed |-> IF toDelPeers # {} \/ DOMAIN toAddPeers # {} THEN <<req>> ELSE <<>>]

\* KvStore's side of peerUpdatesQueue: delete the named peers, then insert or
\* replace the added ones (sessions are <<node, spec>> pairs)
applyPeerUpdate(sessions, req) ==
  LET kept == {s \in sessions[req.area] :
                 s[1] \notin req.peerDelParams /\ s[1] \notin DOMAIN req.peerAddParams}
  IN [sessions EXCEPT ![req.area] =
        kept \cup {<<n, req.peerAddParams[n]>> : n \in DOMAIN req.peerAddParams}]

RECURSIVE applyPeerUpdates(_, _)
applyPeerUpdates(sessions, reqs) ==
  IF reqs = <<>> THEN sessions
  ELSE applyPeerUpdates(applyPeerUpdate(sessions, Head(reqs)), Tail(reqs))

-----------------------------------------------------------------------------
(* Adjacency database and its advertisement *)

\* Variant of buildAdjacencyDatabase(area) that leaves restarting adjacencies out
buildAdjacencyDatabaseUpOnly(adjs, st, area) ==
  [thisNodeName |-> config.nodeId,
   isOverloaded |-> st.isOverloaded,
   nodeLabel |-> IF config.enableSegmentRouting THEN st.nodeLabel ELSE 0,
   area |-> area,
   adjacencies |->
     {LET adjValue == adjs[k]
          linkMetric == IF k[2] \in DOMAIN st.linkMetricOverrides
                        THEN st.linkMetricOverrides[k[2]] ELSE adjValue.metric
          adjMetric == IF k \in DOMAIN st.adjMetricOverrides
                       THEN st.adjMetricOverrides[k] ELSE linkMetric
      IN [otherNodeName |-> k[1],
          ifName |-> k[2],
          metric |-> adjMetric,
          isOverloaded |-> k[2] \in st.overloadedLinks,
          rtt |-> adjValue.rtt]
      : k \in {x \in DOMAIN adjs : adjs[x].area = area /\ ~adjs[x].isRestarting}}]

\* buildAdjacencyDatabase(area)
buildAdjacencyDatabase(adjs, st, area) ==
  [thisNodeName |-> config.nodeId,
   isOverloaded |-> st.isOverloaded,
   nodeLabel |-> IF config.enableSegmentRouting THEN st.nodeLabel ELSE 0,
   area |-> area,
   adjacencies |->
     {LET adjValue == adjs[k]
          linkMetric == IF k[2] \in DOMAIN st.linkMetricOverrides
                        THEN st.linkMetricOverrides[k[2]] ELSE adjValue.metric
          adjMetric == IF k \in DOMAIN st.adjMetricOverrides
                       THEN st.adjMetricOverrides[k] ELSE linkMetric
      IN [otherNodeName |-> k[1],
          ifName |-> k[2],
          metric |-> adjMetric,
          isOverloaded |-> k[2] \in st.overloadedLinks,
          rtt |-> adjValue.rtt]
      : k \in {x \in DOMAIN adjs : adjs[x].area = area}}]

\* What a run of advertisement code has done so far: the throttle's state and
\* the writes made
Effect(throttle) == [throttle |-> throttle, persistKey |-> EmptyMap, configStore |-> <<>>]

\* Variant of advertiseAdjacencies(area) that never writes
advertiseAdjacenciesAreaNever(e, area, holdScheduled, adjs, st) == e

\* Variant of advertiseAdjacencies(area) without the hold-timer check
advertiseAdjacenciesAreaNoHold(e, area, holdScheduled, adjs, st) ==
  [throttle |-> FALSE,
   persistKey |-> MapPut(e.persistKey, area, buildAdjacencyDatabase(adjs, st, area)),
   configStore |-> Append(e.configStore, st)]

\* Variant of advertiseAdjacencies(area) that leaves the throttle as it is
advertiseAdjacenciesAreaNoCancel(e, area, holdScheduled, adjs, st) ==
  IF holdScheduled THEN e
  ELSE [throttle |-> e.throttle,
        persistKey |-> MapPut(e.persistKey, area, buildAdjacencyDatabase(adjs, st, area)),
        configStore |-> Append(e.configStore, st)]

\* advertiseAdjacencies(area); holdScheduled is adjHoldTimer_->isScheduled()
advertiseAdjacenciesArea(e, area, holdScheduled, adjs, st) ==
  IF holdScheduled THEN e
  ELSE [throttle |-> FALSE,
        persistKey |-> MapPut(e.persistKey, area, buildAdjacencyDatabase(adjs, st, area)),
        configStore |-> Append(e.configStore, st)]

\* advertiseAdjacencies(): every area of areas_
RECURSIVE advertiseAdjacenciesLoop(_, _, _, _, _)
advertiseAdjacenciesLoop(e, areaSeq, holdScheduled, adjs, st) ==
  IF areaSeq = <<>> THEN e
  ELSE advertiseAdjacenciesLoop(
         advertiseAdjacenciesArea(e, Head(areaSeq), holdScheduled, adjs, st),
         Tail(areaSeq), holdScheduled, adjs, st)

advertiseAdjacencies(e, holdScheduled, adjs, st) ==
  advertiseAdjacenciesLoop(e, SetToSeq(Areas), holdScheduled, adjs, st)

-----------------------------------------------------------------------------
(* Interfaces and redistribution *)

\* Area configuration: the interfaces an area's discovery / redistribution
\* regexes match
shouldDiscoverOnIface(area, ifName) == ifName \in {Eth1, Eth10, Eth2}

shouldRedistributeIface(area, ifName) ==
  IF area = "area1" THEN ifName = Lo ELSE ifName \in {Lo, Eth2}

anyAreaShouldDiscoverOnIface(ifName) ==
  \E a \in Areas : shouldDiscoverOnIface(a, ifName)

anyAreaShouldRedistributeIface(ifName) ==
  \E a \in Areas : shouldRedistributeIface(a, ifName)

\* Addresses: one link-local and one global-unicast network
LinkLocalNet == "fe80::/64"
GlobalNet == "2001:db8::/64"
Networks == {LinkLocalNet, GlobalNet}

\* InterfaceEntry: an interface is active when it is up and outside backoff
NewInterfaceEntry == [ifIndex |-> 0, isUp |-> FALSE, inBackoff |-> FALSE, networks |-> {}]

isActive(entry) == entry.isUp /\ ~entry.inBackoff

getGlobalUnicastNetworks(entry) == entry.networks \ {LinkLocalNet}

\* Variant of advertiseRedistAddrs() that pushes no request for an area without
\* prefixes
advertiseRedistAddrsSkipEmpty(holdScheduled, ifs) ==
  IF holdScheduled THEN <<>>
  ELSE LET areaSeq == SetToSeq(Areas)
           areaPrefixes(area) ==
             {[prefix |-> net, tags |-> {<<"INTERFACE_SUBNET">>, <<config.nodeId, ifName>>}]
                : <<ifName, net>> \in
                    {x \in (DOMAIN ifs) \X Networks :
                       /\ ifs[x[1]].isUp /\ ~ifs[x[1]].inBackoff
                       /\ x[2] \in ifs[x[1]].networks \ {LinkLocalNet}
                       /\ (IF area = "area1" THEN x[1] = Lo ELSE x[1] \in {Lo, Eth2})}}
           HasPrefixes(request) == request.prefixes # {}
       IN SelectSeq([j \in 1..Len(areaSeq) |->
                       [cmd |-> "SYNC_PREFIXES_BY_TYPE",
                        type |-> "LOOPBACK",
                        prefixes |-> areaPrefixes(areaSeq[j]),
                        dstAreas |-> {areaSeq[j]}]],
                    HasPrefixes)

\* advertiseRedistAddrs(): the requests pushed to prefixUpdatesQueue_, one per
\* area.  A tag is a tuple of the strings it is formatted from
advertiseRedistAddrs(holdScheduled, ifs) ==
  IF holdScheduled THEN <<>>
  ELSE LET areaSeq == SetToSeq(Areas)
           areaPrefixes(area) ==
             {[prefix |-> net, tags |-> {<<"INTERFACE_SUBNET">>, <<config.nodeId, ifName>>}]
                : <<ifName, net>> \in
                    {x \in (DOMAIN ifs) \X Networks :
                       /\ isActive(ifs[x[1]])
                       /\ x[2] \in getGlobalUnicastNetworks(ifs[x[1]])
                       /\ shouldRedistributeIface(area, x[1])}}
       IN [j \in 1..Len(areaSeq) |->
             [cmd |-> "SYNC_PREFIXES_BY_TYPE",
              type |-> "LOOPBACK",
              prefixes |-> areaPrefixes(areaSeq[j]),
              dstAreas |-> {areaSeq[j]}]]

-----------------------------------------------------------------------------
(* Throttle (AsyncThrottle): idle -> armed on a request, armed -> idle when *)
(* it fires or is cancelled; a request while armed is absorbed              *)

throttleRequestedPending(active, pending) ==
  IF ~active THEN 1
  ELSE IF pending < MaxPending THEN pending + 1 ELSE pending

-----------------------------------------------------------------------------
(* Outputs of one handler run *)

NoPeerUpdate == <<>>

Emitted(peerUpdates, e, prefixUpdates, ifUpdates, runs) ==
  [peerUpdatesQueue |-> peerUpdates,
   persistKey |-> e.persistKey,
   configStore |-> e.configStore,
   prefixUpdatesQueue |-> prefixUpdates,
   interfaceUpdatesQueue |-> ifUpdates,
   advertiseAdjacenciesRuns |-> runs]

NoArg == <<>>

\* The handler that ran and the arguments it was given
OpArg(op, node, iface, area, arg) ==
  [op |-> op, node |-> node, iface |-> iface, area |-> area, arg |-> arg]

Op(op, node, iface, area) == OpArg(op, node, iface, area, NoArg)

\* The operator commands: each returns the SemiFuture of a folly::Promise
CommandOps == {"setNodeOverload", "setInterfaceOverload", "setLinkMetric",
               "setAdjacencyMetric"}

\* Every path of a command ends in p.setValue(); no path sets an exception.
\* The other handlers have no caller to answer
promiseFulfilled(op) ==
  IF op \in CommandOps \cup {"getInterfaces", "getAdjacencies"} THEN "setValue"
  ELSE "none"

\* The variables every handler run sets from what it did
Finish(op, peerUpdates, e, prefixUpdates, ifUpdates, runs) ==
  /\ lastOp' = op
  /\ promise' = promiseFulfilled(op.op)
  /\ UNCHANGED <<args, kvVars, interfaceDbSync, platformAgent>>
  /\ fibers' = fiberGot(fibers, op)
  /\ rpc' = closureRan(rpc, op)
  /\ emitted' = Emitted(peerUpdates, e, prefixUpdates, ifUpdates, runs)
  /\ kvStoreKeys' = kvStoreKeys \cup DOMAIN e.persistKey
  /\ adjDbInKvStore' = persistKeys(adjDbInKvStore, e.persistKey)
  /\ kvPeerSessions' = applyPeerUpdates(kvPeerSessions, peerUpdates)
  /\ stepParity' = 1 - stepParity

-----------------------------------------------------------------------------
(* Neighbor events (processNeighborEvent) *)

NeighborUpTypes == {"NEIGHBOR_UP", "NEIGHBOR_RESTARTED"}

\* Variant of neighborUpEvent that recomputes the peers before it records the
\* adjacency
NeighborUpAdvertiseFirst(evType, n, i, a, addr, rttUs) ==
  LET peerSpec == createPeerSpec(i, addr)
      newAdj == [area |-> a,
                 peerSpec |-> peerSpec,
                 isRestarting |-> FALSE,
                 metric |-> IF config.useRttMetric THEN getRttMetric(rttUs) ELSE 1,
                 rtt |-> IF config.useRttMetric THEN rttUs ELSE Zero64]
      adjs == MapPut(adjacencies, <<n, i>>, newAdj)
      r == advertiseKvStorePeers(adjacencies, peers, a, MapPut(EmptyMap, n, peerSpec))
  IN /\ ~aborted
     /\ adjacencies' = adjs
     /\ peers' = r.peers
     /\ aborted' = r.checkFailed
     /\ IF r.checkFailed
        THEN /\ UNCHANGED <<advertiseAdjacenciesThrottled, throttledPending>>
             /\ Finish(Op(evType, n, i, a), NoPeerUpdate,
                       Effect(advertiseAdjacenciesThrottled), <<>>, <<>>, 0)
        ELSE /\ advertiseAdjacenciesThrottled' = TRUE
             /\ throttledPending' =
                  throttleRequestedPending(advertiseAdjacenciesThrottled, throttledPending)
             /\ Finish(Op(evType, n, i, a), r.pushed, Effect(TRUE), <<>>, <<>>, 0)
     /\ UNCHANGED <<config, state, interfaces, ifIndexToName, adjHoldTimer,
                    advertiseIfaceAddrThrottled, advertiseIfaceAddrTimer, ret>>

\* neighborUpEvent
NeighborUp(evType, n, i, a, addr, rttUs) ==
  LET peerSpec == createPeerSpec(i, addr)
      newAdj == [area |-> a,
                 peerSpec |-> peerSpec,
                 isRestarting |-> FALSE,
                 metric |-> IF config.useRttMetric THEN getRttMetric(rttUs) ELSE 1,
                 rtt |-> IF config.useRttMetric THEN rttUs ELSE Zero64]
      adjs == MapPut(adjacencies, <<n, i>>, newAdj)
      r == advertiseKvStorePeers(adjs, peers, a, MapPut(EmptyMap, n, peerSpec))
  IN /\ ~aborted
     /\ adjacencies' = adjs
     /\ peers' = r.peers
     /\ aborted' = r.checkFailed
     /\ IF r.checkFailed
        THEN /\ UNCHANGED <<advertiseAdjacenciesThrottled, throttledPending>>
             /\ Finish(Op(evType, n, i, a), NoPeerUpdate,
                       Effect(advertiseAdjacenciesThrottled), <<>>, <<>>, 0)
        ELSE /\ advertiseAdjacenciesThrottled' = TRUE
             /\ throttledPending' =
                  throttleRequestedPending(advertiseAdjacenciesThrottled, throttledPending)
             /\ Finish(Op(evType, n, i, a), r.pushed, Effect(TRUE), <<>>, <<>>, 0)
     /\ UNCHANGED <<config, state, interfaces, ifIndexToName, adjHoldTimer,
                    advertiseIfaceAddrThrottled, advertiseIfaceAddrTimer, ret>>

\* neighborDownEvent
NeighborDown(n, i, a) ==
  LET adjs == IF <<n, i>> \in DOMAIN adjacencies
              THEN MapErase(adjacencies, <<n, i>>) ELSE adjacencies
      r == advertiseKvStorePeers(adjs, peers, a, EmptyMap)
      e == advertiseAdjacenciesArea(Effect(advertiseAdjacenciesThrottled), a,
                                    adjHoldTimer, adjs, state)
  IN /\ ~aborted
     /\ adjacencies' = adjs
     /\ peers' = r.peers
     /\ advertiseAdjacenciesThrottled' = e.throttle
     /\ throttledPending' = IF e.throttle THEN throttledPending ELSE 0
     /\ Finish(Op("NEIGHBOR_DOWN", n, i, a), r.pushed, e, <<>>, <<>>, 0)
     /\ UNCHANGED <<config, state, interfaces, ifIndexToName, adjHoldTimer,
                    advertiseIfaceAddrThrottled, advertiseIfaceAddrTimer, aborted, ret>>

\* neighborRestartingEvent
NeighborRestarting(n, i, a) ==
  LET adjs == IF <<n, i>> \in DOMAIN adjacencies
              THEN [adjacencies EXCEPT ![<<n, i>>].isRestarting = TRUE]
              ELSE adjacencies
      r == advertiseKvStorePeers(adjs, peers, a, EmptyMap)
  IN /\ ~aborted
     /\ adjacencies' = adjs
     /\ peers' = r.peers
     /\ Finish(Op("NEIGHBOR_RESTARTING", n, i, a), r.pushed,
               Effect(advertiseAdjacenciesThrottled), <<>>, <<>>, 0)
     /\ UNCHANGED <<config, state, interfaces, ifIndexToName, adjHoldTimer,
                    advertiseAdjacenciesThrottled, advertiseIfaceAddrThrottled,
                    advertiseIfaceAddrTimer, aborted, throttledPending, ret>>

\* Variant of the NEIGHBOR_RTT_CHANGE handling that does not look at useRttMetric_
NeighborRttChangeAlways(n, i, a, rttUs) ==
  LET known == <<n, i>> \in DOMAIN adjacencies
  IN /\ ~aborted
     /\ adjacencies' =
          IF known
          THEN [adjacencies EXCEPT ![<<n, i>>].metric = getRttMetric(rttUs),
                                   ![<<n, i>>].rtt = rttUs]
          ELSE adjacencies
     /\ advertiseAdjacenciesThrottled' = (known \/ advertiseAdjacenciesThrottled)
     /\ throttledPending' =
          IF known
          THEN throttleRequestedPending(advertiseAdjacenciesThrottled, throttledPending)
          ELSE throttledPending
     /\ Finish(OpArg("NEIGHBOR_RTT_CHANGE", n, i, a, rttUs), NoPeerUpdate,
               Effect(advertiseAdjacenciesThrottled'), <<>>, <<>>, 0)
     /\ UNCHANGED <<config, peers, state, interfaces, ifIndexToName, adjHoldTimer,
                    advertiseIfaceAddrThrottled, advertiseIfaceAddrTimer, aborted, ret>>

\* NEIGHBOR_RTT_CHANGE: dropped unless useRttMetric_, else neighborRttChangeEvent
NeighborRttChange(n, i, a, rttUs) ==
  LET known == config.useRttMetric /\ <<n, i>> \in DOMAIN adjacencies
  IN /\ ~aborted
     /\ adjacencies' =
          IF known
          THEN [adjacencies EXCEPT ![<<n, i>>].metric = getRttMetric(rttUs),
                                   ![<<n, i>>].rtt = rttUs]
          ELSE adjacencies
     /\ advertiseAdjacenciesThrottled' = (known \/ advertiseAdjacenciesThrottled)
     /\ throttledPending' =
          IF known
          THEN throttleRequestedPending(advertiseAdjacenciesThrottled, throttledPending)
          ELSE throttledPending
     /\ Finish(OpArg("NEIGHBOR_RTT_CHANGE", n, i, a, rttUs), NoPeerUpdate,
               Effect(advertiseAdjacenciesThrottled'), <<>>, <<>>, 0)
     /\ UNCHANGED <<config, peers, state, interfaces, ifIndexToName, adjHoldTimer,
                    advertiseIfaceAddrThrottled, advertiseIfaceAddrTimer, aborted, ret>>

-----------------------------------------------------------------------------
(* Timers *)

\* adjHoldTimer_ expires: advertiseAdjacencies(); advertiseRedistAddrs()
AdjHoldTimerExpired ==
  LET e == advertiseAdjacencies(Effect(advertiseAdjacenciesThrottled), FALSE,
                                adjacencies, state)
  IN /\ ~aborted
     /\ adjHoldTimer
     /\ adjHoldTimer' = FALSE
     /\ advertiseAdjacenciesThrottled' = e.throttle
     /\ throttledPending' = IF e.throttle THEN throttledPending ELSE 0
     /\ Finish(Op("adjHoldTimer", "", NoArg, ""), NoPeerUpdate, e,
               advertiseRedistAddrs(FALSE, interfaces), <<>>, 1)
     /\ UNCHANGED <<config, adjacencies, peers, state, interfaces, ifIndexToName,
                    advertiseIfaceAddrThrottled, advertiseIfaceAddrTimer, aborted, ret>>

\* advertiseAdjacenciesThrottled_ fires: advertiseAdjacencies().  lastOp.arg
\* keeps the number of requests the throttle had absorbed
AdjThrottleFired ==
  LET e == advertiseAdjacencies(Effect(FALSE), adjHoldTimer, adjacencies, state)
  IN /\ ~aborted
     /\ advertiseAdjacenciesThrottled
     /\ advertiseAdjacenciesThrottled' = FALSE
     /\ throttledPending' = 0
     /\ Finish(OpArg("advertiseAdjacenciesThrottled", "", NoArg, "", throttledPending),
               NoPeerUpdate, e, <<>>, <<>>, 1)
     /\ UNCHANGED <<config, adjacencies, peers, state, interfaces, ifIndexToName,
                    adjHoldTimer, advertiseIfaceAddrThrottled,
                    advertiseIfaceAddrTimer, aborted, ret>>

-----------------------------------------------------------------------------
(* Operator commands *)

\* std::optional<int32_t>: <<>> is nullopt, <<v>> holds v
NoMetric == <<>>

\* advertiseAdjacenciesThrottled_->operator()() when `requested`
RequestAdjThrottle(requested) ==
  /\ advertiseAdjacenciesThrottled' = (requested \/ advertiseAdjacenciesThrottled)
  /\ throttledPending' =
       IF requested
       THEN throttleRequestedPending(advertiseAdjacenciesThrottled, throttledPending)
       ELSE throttledPending

\* Variant of setNodeOverload that goes through the throttle like the other commands
SetNodeOverloadThrottled(isOverloaded) ==
  /\ ~aborted
  /\ state' = [state EXCEPT !.isOverloaded = isOverloaded]
  /\ RequestAdjThrottle(state.isOverloaded # isOverloaded)
  /\ Finish(OpArg("setNodeOverload", "", NoArg, "", isOverloaded), NoPeerUpdate,
            Effect(advertiseAdjacenciesThrottled'), <<>>, <<>>, 0)
  /\ UNCHANGED <<config, adjacencies, peers, interfaces, ifIndexToName, adjHoldTimer,
                 advertiseIfaceAddrThrottled, advertiseIfaceAddrTimer, aborted, ret>>

\* setNodeOverload
SetNodeOverload(isOverloaded) ==
  LET changed == state.isOverloaded # isOverloaded
      st == [state EXCEPT !.isOverloaded = isOverloaded]
      e == IF changed
           THEN advertiseAdjacencies(Effect(advertiseAdjacenciesThrottled),
                                     adjHoldTimer, adjacencies, st)
           ELSE Effect(advertiseAdjacenciesThrottled)
  IN /\ ~aborted
     /\ state' = st
     /\ advertiseAdjacenciesThrottled' = e.throttle
     /\ throttledPending' = IF e.throttle THEN throttledPending ELSE 0
     /\ Finish(OpArg("setNodeOverload", "", NoArg, "", isOverloaded), NoPeerUpdate, e,
               <<>>, <<>>, IF changed THEN 1 ELSE 0)
     /\ UNCHANGED <<config, adjacencies, peers, interfaces, ifIndexToName, adjHoldTimer,
                    advertiseIfaceAddrThrottled, advertiseIfaceAddrTimer, aborted, ret>>

\* Variant of setInterfaceOverload that does not look at the bit in force
SetInterfaceOverloadAlways(interfaceName, isOverloaded) ==
  LET skip == interfaceName \notin DOMAIN interfaces
  IN /\ ~aborted
     /\ state' =
          IF skip THEN state
          ELSE IF isOverloaded
          THEN [state EXCEPT !.overloadedLinks = @ \cup {interfaceName}]
          ELSE [state EXCEPT !.overloadedLinks = @ \ {interfaceName}]
     /\ RequestAdjThrottle(~skip)
     /\ Finish(OpArg("setInterfaceOverload", "", interfaceName, "", isOverloaded),
               NoPeerUpdate, Effect(advertiseAdjacenciesThrottled'), <<>>, <<>>, 0)
     /\ UNCHANGED <<config, adjacencies, peers, interfaces, ifIndexToName, adjHoldTimer,
                    advertiseIfaceAddrThrottled, advertiseIfaceAddrTimer, aborted, ret>>

\* setInterfaceOverload
SetInterfaceOverload(interfaceName, isOverloaded) ==
  LET skip == \/ interfaceName \notin DOMAIN interfaces
              \/ isOverloaded /\ interfaceName \in state.overloadedLinks
              \/ ~isOverloaded /\ interfaceName \notin state.overloadedLinks
  IN /\ ~aborted
     /\ state' =
          IF skip THEN state
          ELSE IF isOverloaded
          THEN [state EXCEPT !.overloadedLinks = @ \cup {interfaceName}]
          ELSE [state EXCEPT !.overloadedLinks = @ \ {interfaceName}]
     /\ RequestAdjThrottle(~skip)
     /\ Finish(OpArg("setInterfaceOverload", "", interfaceName, "", isOverloaded),
               NoPeerUpdate, Effect(advertiseAdjacenciesThrottled'), <<>>, <<>>, 0)
     /\ UNCHANGED <<config, adjacencies, peers, interfaces, ifIndexToName, adjHoldTimer,
                    advertiseIfaceAddrThrottled, advertiseIfaceAddrTimer, aborted, ret>>

\* Variant of setLinkMetric without the check that the interface is known
SetLinkMetricAnyInterface(interfaceName, overrideMetric) ==
  LET overrides == state.linkMetricOverrides
      skip == \/ /\ overrideMetric # NoMetric
                 /\ interfaceName \in DOMAIN overrides
                 /\ overrides[interfaceName] = overrideMetric[1]
              \/ overrideMetric = NoMetric /\ interfaceName \notin DOMAIN overrides
  IN /\ ~aborted
     /\ state' =
          IF skip THEN state
          ELSE IF overrideMetric # NoMetric
          THEN [state EXCEPT !.linkMetricOverrides =
                               MapPut(overrides, interfaceName, overrideMetric[1])]
          ELSE [state EXCEPT !.linkMetricOverrides = MapErase(overrides, interfaceName)]
     /\ RequestAdjThrottle(~skip)
     /\ Finish(OpArg("setLinkMetric", "", interfaceName, "", overrideMetric),
               NoPeerUpdate, Effect(advertiseAdjacenciesThrottled'), <<>>, <<>>, 0)
     /\ UNCHANGED <<config, adjacencies, peers, interfaces, ifIndexToName, adjHoldTimer,
                    advertiseIfaceAddrThrottled, advertiseIfaceAddrTimer, aborted, ret>>

\* setLinkMetric
SetLinkMetric(interfaceName, overrideMetric) ==
  LET overrides == state.linkMetricOverrides
      skip == \/ interfaceName \notin DOMAIN interfaces
              \/ /\ overrideMetric # NoMetric
                 /\ interfaceName \in DOMAIN overrides
                 /\ overrides[interfaceName] = overrideMetric[1]
              \/ overrideMetric = NoMetric /\ interfaceName \notin DOMAIN overrides
  IN /\ ~aborted
     /\ state' =
          IF skip THEN state
          ELSE IF overrideMetric # NoMetric
          THEN [state EXCEPT !.linkMetricOverrides =
                               MapPut(overrides, interfaceName, overrideMetric[1])]
          ELSE [state EXCEPT !.linkMetricOverrides = MapErase(overrides, interfaceName)]
     /\ RequestAdjThrottle(~skip)
     /\ Finish(OpArg("setLinkMetric", "", interfaceName, "", overrideMetric),
               NoPeerUpdate, Effect(advertiseAdjacenciesThrottled'), <<>>, <<>>, 0)
     /\ UNCHANGED <<config, adjacencies, peers, interfaces, ifIndexToName, adjHoldTimer,
                    advertiseIfaceAddrThrottled, advertiseIfaceAddrTimer, aborted, ret>>

\* setAdjacencyMetric
SetAdjacencyMetric(interfaceName, adjNodeName, overrideMetric) ==
  LET adjKey == <<adjNodeName, interfaceName>>
      overrides == state.adjMetricOverrides
      skip == \/ adjKey \notin DOMAIN adjacencies
              \/ /\ overrideMetric # NoMetric
                 /\ adjKey \in DOMAIN overrides
                 /\ overrides[adjKey] = overrideMetric[1]
              \/ overrideMetric = NoMetric /\ adjKey \notin DOMAIN overrides
  IN /\ ~aborted
     /\ state' =
          IF skip THEN state
          ELSE IF overrideMetric # NoMetric
          THEN [state EXCEPT !.adjMetricOverrides =
                               MapPut(overrides, adjKey, overrideMetric[1])]
          ELSE [state EXCEPT !.adjMetricOverrides = MapErase(overrides, adjKey)]
     /\ RequestAdjThrottle(~skip)
     /\ Finish(OpArg("setAdjacencyMetric", adjNodeName, interfaceName, "", overrideMetric),
               NoPeerUpdate, Effect(advertiseAdjacenciesThrottled'), <<>>, <<>>, 0)
     /\ UNCHANGED <<config, adjacencies, peers, interfaces, ifIndexToName, adjHoldTimer,
                    advertiseIfaceAddrThrottled, advertiseIfaceAddrTimer, aborted, ret>>

-----------------------------------------------------------------------------
(* Link and address events (processNetlinkEvent), interface advertisement *)

\* InterfaceEntry::updateAttrs: a change requests the throttled advertisement;
\* going down starts the backoff and schedules the timer
updateAttrs(entry, ifIndex, isUp) ==
  [entry |-> [entry EXCEPT !.ifIndex = ifIndex,
                           !.isUp = isUp,
                           !.inBackoff = entry.inBackoff \/ (entry.isUp /\ ~isUp)],
   updated |-> entry.ifIndex # ifIndex \/ entry.isUp # isUp,
   wentDown |-> entry.isUp /\ ~isUp]

\* InterfaceEntry::updateAddr: a change requests the throttled advertisement
updateAddr(entry, network, isValid) ==
  LET networks == IF isValid THEN entry.networks \cup {network}
                  ELSE entry.networks \ {network}
  IN [entry |-> [entry EXCEPT !.networks = networks],
      updated |-> networks # entry.networks]

\* getOrCreateInterfaceEntry: whether an entry is returned, and the entry
getOrCreateInterfaceEntry(ifs, ifName) ==
  [found |-> anyAreaShouldDiscoverOnIface(ifName) \/ anyAreaShouldRedistributeIface(ifName),
   entry |-> IF ifName \in DOMAIN ifs THEN ifs[ifName] ELSE NewInterfaceEntry]

\* processNetlinkEvent, fbnl::Link
LinkEvent(ifName, ifIndex, isUp) ==
  LET got == getOrCreateInterfaceEntry(interfaces, ifName)
      u == updateAttrs(got.entry, ifIndex, isUp)
  IN /\ ~aborted
     /\ ifIndexToName' = MapPut(ifIndexToName, ifIndex, ifName)
     /\ interfaces' = IF got.found THEN MapPut(interfaces, ifName, u.entry) ELSE interfaces
     /\ advertiseIfaceAddrThrottled' =
          (advertiseIfaceAddrThrottled \/ (got.found /\ u.updated))
     /\ advertiseIfaceAddrTimer' = (advertiseIfaceAddrTimer \/ (got.found /\ u.wentDown))
     /\ Finish(OpArg("Link", "", ifName, "", <<ifIndex, isUp>>), NoPeerUpdate,
               Effect(advertiseAdjacenciesThrottled), <<>>, <<>>, 0)
     /\ UNCHANGED <<config, adjacencies, peers, state, adjHoldTimer,
                    advertiseAdjacenciesThrottled, aborted, throttledPending, ret>>

\* Variant of the fbnl::IfAddress handling that takes an unknown index for the
\* loopback's
AddrEventAnyIndex(ifIndex, prefix, isValid) ==
  LET ifName == IF ifIndex \in DOMAIN ifIndexToName THEN ifIndexToName[ifIndex] ELSE Lo
      entry == IF ifName \in DOMAIN interfaces THEN interfaces[ifName]
               ELSE NewInterfaceEntry
      networks == IF isValid THEN entry.networks \cup {prefix}
                  ELSE entry.networks \ {prefix}
  IN /\ ~aborted
     /\ interfaces' = MapPut(interfaces, ifName, [entry EXCEPT !.networks = networks])
     /\ advertiseIfaceAddrThrottled' =
          (advertiseIfaceAddrThrottled \/ networks # entry.networks)
     /\ Finish(OpArg("IfAddress", "", NoArg, "", <<ifIndex, prefix, isValid>>),
               NoPeerUpdate, Effect(advertiseAdjacenciesThrottled), <<>>, <<>>, 0)
     /\ UNCHANGED <<config, adjacencies, peers, state, ifIndexToName, adjHoldTimer,
                    advertiseAdjacenciesThrottled, advertiseIfaceAddrTimer, aborted,
                    throttledPending, ret>>

\* processNetlinkEvent, fbnl::IfAddress
AddrEvent(ifIndex, prefix, isValid) ==
  LET known == ifIndex \in DOMAIN ifIndexToName
      ifName == ifIndexToName[ifIndex]
      got == getOrCreateInterfaceEntry(interfaces, ifName)
      u == updateAddr(got.entry, prefix, isValid)
  IN /\ ~aborted
     /\ interfaces' =
          IF known /\ got.found THEN MapPut(interfaces, ifName, u.entry) ELSE interfaces
     /\ advertiseIfaceAddrThrottled' =
          (advertiseIfaceAddrThrottled \/ (known /\ got.found /\ u.updated))
     /\ Finish(OpArg("IfAddress", "", NoArg, "", <<ifIndex, prefix, isValid>>),
               NoPeerUpdate, Effect(advertiseAdjacenciesThrottled), <<>>, <<>>, 0)
     /\ UNCHANGED <<config, adjacencies, peers, state, ifIndexToName, adjHoldTimer,
                    advertiseAdjacenciesThrottled, advertiseIfaceAddrTimer, aborted,
                    throttledPending, ret>>

\* getRetryTimeOnUnstableInterfaces() != 0: an inactive interface is in backoff
retryOnUnstableInterfaces(ifs) ==
  \E ifName \in DOMAIN ifs : ~isActive(ifs[ifName]) /\ ifs[ifName].inBackoff

\* Variant of advertiseInterfaces() that reports the link state as it is
advertiseInterfacesLinkState(ifs) ==
  [thisNodeName |-> config.nodeId,
   interfaces |->
     [ifName \in {x \in DOMAIN ifs : x \in {Eth1, Eth10, Eth2}} |->
        [isUp |-> ifs[ifName].isUp,
         ifIndex |-> ifs[ifName].ifIndex,
         networks |-> ifs[ifName].networks]]]

\* advertiseInterfaces(): the database pushed to interfaceUpdatesQueue_
advertiseInterfaces(ifs) ==
  [thisNodeName |-> config.nodeId,
   interfaces |->
     [ifName \in {x \in DOMAIN ifs : anyAreaShouldDiscoverOnIface(x)} |->
        [isUp |-> isActive(ifs[ifName]),
         ifIndex |-> ifs[ifName].ifIndex,
         networks |-> ifs[ifName].networks]]]

\* advertiseIfaceAddr(), run by the throttle (timerFired FALSE) or by the timer
AdvertiseIfaceAddr(op, timerFired) ==
  /\ ~aborted
  /\ advertiseIfaceAddrThrottled' = FALSE
  /\ advertiseIfaceAddrTimer' =
       (retryOnUnstableInterfaces(interfaces) \/ (advertiseIfaceAddrTimer /\ ~timerFired))
  /\ Finish(Op(op, "", NoArg, ""), NoPeerUpdate, Effect(advertiseAdjacenciesThrottled),
            advertiseRedistAddrs(adjHoldTimer, interfaces),
            <<advertiseInterfaces(interfaces)>>, 0)
  /\ UNCHANGED <<config, adjacencies, peers, state, interfaces, ifIndexToName,
                 adjHoldTimer, advertiseAdjacenciesThrottled, aborted,
                 throttledPending, ret>>

\* advertiseIfaceAddrThrottled_ fires
IfaceThrottleFired ==
  advertiseIfaceAddrThrottled /\ AdvertiseIfaceAddr("advertiseIfaceAddrThrottled", FALSE)

\* advertiseIfaceAddrTimer_ fires
IfaceTimerFired ==
  advertiseIfaceAddrTimer /\ AdvertiseIfaceAddr("advertiseIfaceAddrTimer", TRUE)

\* The backoff of an interface runs out (time passes)
BackoffExpired(ifName) ==
  /\ ~aborted
  /\ ifName \in DOMAIN interfaces
  /\ interfaces[ifName].inBackoff
  /\ interfaces' = [interfaces EXCEPT ![ifName].inBackoff = FALSE]
  /\ Finish(Op("backoff", "", ifName, ""), NoPeerUpdate,
            Effect(advertiseAdjacenciesThrottled), <<>>, <<>>, 0)
  /\ UNCHANGED <<config, adjacencies, peers, state, ifIndexToName, adjHoldTimer,
                 advertiseAdjacenciesThrottled, advertiseIfaceAddrThrottled,
                 advertiseIfaceAddrTimer, aborted, throttledPending, ret>>

-----------------------------------------------------------------------------
(* Initial state: the state the constructor leaves *)

InitialState(assumeDrained) ==
  [nodeLabel |-> 0,
   isOverloaded |-> assumeDrained,
   overloadedLinks |-> {},
   linkMetricOverrides |-> EmptyMap,
   adjMetricOverrides |-> EmptyMap]

Configs(rttChoices) ==
  [nodeId : {"node-a"}, useRttMetric : rttChoices, enableSegmentRouting : {FALSE},
   assumeDrained : {FALSE}]

\* adjMaps is {EmptyMap} for a run of the program; the runs of one function on
\* its inputs draw the map from a larger set
InitObserving(cfgs, adjMaps, observed) ==
  /\ config \in cfgs
  /\ adjacencies \in adjMaps
  /\ peers = [a \in Areas |-> EmptyMap]
  /\ state = InitialState(config.assumeDrained)
  /\ interfaces = EmptyMap
  /\ ifIndexToName = EmptyMap
  /\ adjHoldTimer = TRUE
  /\ advertiseAdjacenciesThrottled = FALSE
  /\ advertiseIfaceAddrThrottled = FALSE
  /\ advertiseIfaceAddrTimer = FALSE
  /\ kvStoreKeys = {}
  /\ kvPeerSessions = [a \in Areas |-> {}]
  /\ aborted = FALSE
  /\ lastOp = Op("LinkMonitor", "", NoArg, "")
  /\ emitted = Emitted(NoPeerUpdate, Effect(FALSE), <<>>, <<>>, 0)
  /\ throttledPending = 0
  /\ ret = EmptyMap
  /\ stepParity = 0
  /\ promise = "none"
  /\ args = <<>>
  /\ KvStoresInit
  /\ FibersInit
  /\ HostInit(observed)

InitFrom(cfgs, adjMaps) == InitObserving(cfgs, adjMaps, {})

InitWith(cfgs) == InitFrom(cfgs, {EmptyMap})

-----------------------------------------------------------------------------
(* Neighbor events on parallel links, two nodes, two areas *)

SmallRtt == Int64(FALSE, 0, 250)

\* node-b is reached over two parallel links and may be heard in either area;
\* node-c over one link in area1
NbrLinks == {<<"node-b", Eth10>>, <<"node-b", Eth2>>, <<"node-c", Eth2>>}

NbrAreas(n) == IF n = "node-b" THEN Areas ELSE {"area1"}

\* node-b may change its transport address on eth2
NbrAddrs(n, i) == IF n = "node-b" /\ i = Eth2 THEN Addrs ELSE {"fe80::1"}

InitNbr == InitWith(Configs({FALSE}))

NextNbr ==
  \/ \E t \in NeighborUpTypes, k \in NbrLinks :
       \E a \in NbrAreas(k[1]), addr \in NbrAddrs(k[1], k[2]) :
         NeighborUp(t, k[1], k[2], a, addr, SmallRtt)
  \/ \E k \in NbrLinks : \E a \in NbrAreas(k[1]) : NeighborDown(k[1], k[2], a)
  \/ \E k \in NbrLinks : \E a \in NbrAreas(k[1]) : NeighborRestarting(k[1], k[2], a)
  \/ AdjHoldTimerExpired
  \/ AdjThrottleFired

SpecNbr == InitNbr /\ [][NextNbr]_vars

-----------------------------------------------------------------------------
(* Vocabulary of the properties *)

\* Position of an interface name in dictionary order: "eth1" < "eth10" < "eth2" < "lo"
IfaceRank(i) ==
  CASE i = Eth1 -> 1
    [] i = Eth10 -> 2
    [] i = Eth2 -> 3
    [] OTHER -> 4

\* The adjacencies to node n of area a that are not restarting
LiveAdjs(adjs, a, n) ==
  {k \in DOMAIN adjs : k[1] = n /\ adjs[k].area = a /\ ~adjs[k].isRestarting}

\* The one of a non-empty set of adjacency keys with the smallest interface name
SmallestAdj(S) ==
  CHOOSE k \in S : \A x \in S : IfaceRank(k[2]) <= IfaceRank(x[2])

\* KvStore's sessions with node n in area a
SessionsOf(sessions, a, n) == {x \in sessions[a] : x[1] = n}

\* The requests of a queue that add / delete a peer for node n
PeerAdds(queue, n) ==
  {j \in 1..Len(queue) : n \in DOMAIN queue[j].peerAddParams}

PeerDels(queue, n) ==
  {j \in 1..Len(queue) : n \in queue[j].peerDelParams}

\* A handler ran in this step (every handler run flips stepParity)
HandlerRan(ops) == stepParity' # stepParity /\ lastOp'.op \in ops

-----------------------------------------------------------------------------
(* C1 *)

\* C1: in every reachable state KvStore holds at most one peer session per
\* (area, remote node), and a node with at least one non-restarting adjacency
\* in an area (two parallel links included) has exactly one session there.
C1_OnePeerSessionPerAreaNode ==
  \A a \in Areas, n \in Nodes :
    /\ Cardinality(SessionsOf(kvPeerSessions, a, n)) <= 1
    /\ LiveAdjs(adjacencies, a, n) # {} =>
         Cardinality(SessionsOf(kvPeerSessions, a, n)) = 1

\* Two parallel links to node-b are up in area1 and KvStore holds one session
C1_Witness ==
  /\ Cardinality(LiveAdjs(adjacencies, "area1", "node-b")) = 2
  /\ Cardinality(SessionsOf(kvPeerSessions, "area1", "node-b")) = 1
  /\ lastOp.op \in NeighborUpTypes

-----------------------------------------------------------------------------
(* C3 *)

\* What a NEIGHBOR_UP / NEIGHBOR_RESTARTED step leaves for its adjacency
UpLeavesAdjacency ==
  LET k == <<lastOp'.node, lastOp'.iface>>
  IN /\ k \in DOMAIN adjacencies'
     /\ adjacencies'[k].area = lastOp'.area
     /\ ~adjacencies'[k].isRestarting

\* The node of the step had no peer in the step's area before it
HadNoPeer == lastOp'.node \notin DOMAIN peers[lastOp'.area]

\* The node's selected peer spec after the step differs from the one before
SpecIsNew ==
  /\ lastOp'.node \in DOMAIN peers[lastOp'.area]
  /\ lastOp'.node \in DOMAIN peers'[lastOp'.area]
  /\ peers'[lastOp'.area][lastOp'.node].tPeerSpec
       # peers[lastOp'.area][lastOp'.node].tPeerSpec

\* The adjacency of the step is the one the node's peer spec is taken from
OwnSpecSelected ==
  /\ lastOp'.node \in DOMAIN peers'[lastOp'.area]
  /\ <<lastOp'.node, lastOp'.iface>> \in DOMAIN adjacencies'
  /\ peers'[lastOp'.area][lastOp'.node].tPeerSpec
       = adjacencies'[<<lastOp'.node, lastOp'.iface>>].peerSpec

\* C3: a NEIGHBOR_UP or NEIGHBOR_RESTARTED event leaves its adjacency present
\* with the restarting flag cleared, and a KV-peer ADD for the node is emitted
\* exactly when the node had no peer in the area before, or its selected spec
\* is new, or the event's own interface is the selected one (the peer of the
\* event is re-added even if its spec is unchanged); an UP on a non-selected
\* interface that leaves the selected spec unchanged emits no ADD.
C3_UpAddsPeerWhenNewOrOwn ==
  [][HandlerRan(NeighborUpTypes) =>
       /\ UpLeavesAdjacency
       /\ (PeerAdds(emitted'.peerUpdatesQueue, lastOp'.node) # {})
            <=> (HadNoPeer \/ SpecIsNew \/ OwnSpecSelected)
       /\ PeerDels(emitted'.peerUpdatesQueue, lastOp'.node) = {}]_vars

\* C3 as stated: the ADD is emitted exactly when the node had no peer or its
\* selected spec is new.
C3_AsStated ==
  [][HandlerRan(NeighborUpTypes) =>
       /\ UpLeavesAdjacency
       /\ (PeerAdds(emitted'.peerUpdatesQueue, lastOp'.node) # {})
            <=> (HadNoPeer \/ SpecIsNew)]_vars

\* An UP on eth2 arrived while eth10 was and stays the selected link of node-b:
\* no ADD; and the case before it, an UP on the selected link, re-added the peer
C3_Witness ==
  /\ lastOp.op \in NeighborUpTypes
  /\ lastOp.node = "node-b" /\ lastOp.iface = Eth2 /\ lastOp.area = "area1"
  /\ Cardinality(LiveAdjs(adjacencies, "area1", "node-b")) = 2
  /\ emitted.peerUpdatesQueue = <<>>

-----------------------------------------------------------------------------
(* C4 *)

\* The adjacency <<node, iface>> is listed in the database built for its area
ListedInAdjDb(adjs, st, k) ==
  \E adj \in buildAdjacencyDatabase(adjs, st, adjs[k].area).adjacencies :
    adj.otherNodeName = k[1] /\ adj.ifName = k[2]

\* The node keeps exactly one peer, taken from its smallest live interface
KeepsSmallestPeer(a, n) ==
  LET live == LiveAdjs(adjacencies', a, n)
  IN /\ n \in DOMAIN peers'[a]
     /\ peers'[a][n].tPeerSpec = adjacencies'[SmallestAdj(live)].peerSpec

\* C4: a NEIGHBOR_RESTARTING event for an existing adjacency keeps it, tracked
\* and listed in the adjacency database, with the restarting flag set; a KV-peer
\* DEL for the node is emitted if and only if the node had a peer in the event's
\* area before and no non-restarting adjacency to it remains there; if one
\* remains, the node keeps exactly one peer, that of the smallest remaining
\* non-restarting interface.
C4_RestartingParallelLinkAware ==
  [][(HandlerRan({"NEIGHBOR_RESTARTING"})
        /\ <<lastOp'.node, lastOp'.iface>> \in DOMAIN adjacencies) =>
       LET n == lastOp'.node
           a == lastOp'.area
           k == <<lastOp'.node, lastOp'.iface>>
           live == LiveAdjs(adjacencies', a, n)
       IN /\ DOMAIN adjacencies' = DOMAIN adjacencies
          /\ adjacencies'[k].isRestarting
          /\ ListedInAdjDb(adjacencies', state', k)
          /\ (PeerDels(emitted'.peerUpdatesQueue, n) # {})
               <=> (n \in DOMAIN peers[a] /\ live = {})
          /\ live # {} => KeepsSmallestPeer(a, n)]_vars

\* C4 as stated, for an event in the adjacency's own area: the DEL is emitted
\* if and only if no other non-restarting adjacency to the node remains in the
\* area.
C4_AsStated ==
  [][(HandlerRan({"NEIGHBOR_RESTARTING"})
        /\ <<lastOp'.node, lastOp'.iface>> \in DOMAIN adjacencies
        /\ adjacencies[<<lastOp'.node, lastOp'.iface>>].area = lastOp'.area) =>
       LET n == lastOp'.node
           a == lastOp'.area
           live == LiveAdjs(adjacencies', a, n)
       IN (PeerDels(emitted'.peerUpdatesQueue, n) # {}) <=> (live = {})]_vars

\* node-b restarts on eth10 while eth2 stays up: the peer moves to eth2
C4_Witness ==
  /\ lastOp = Op("NEIGHBOR_RESTARTING", "node-b", Eth10, "area1")
  /\ <<"node-b", Eth10>> \in DOMAIN adjacencies
  /\ adjacencies[<<"node-b", Eth10>>].isRestarting
  /\ LiveAdjs(adjacencies, "area1", "node-b") = {<<"node-b", Eth2>>}
  /\ PeerAdds(emitted.peerUpdatesQueue, "node-b") # {}
  /\ PeerDels(emitted.peerUpdatesQueue, "node-b") = {}

-----------------------------------------------------------------------------
(* C5 *)

\* peers_[a] is what the adjacencies of area a give: one peer per node with a
\* non-restarting adjacency, that of its smallest interface
PeersRecomputed(a) ==
  /\ \A m \in Nodes : m \in DOMAIN peers'[a] <=> LiveAdjs(adjacencies', a, m) # {}
  /\ \A m \in DOMAIN peers'[a] :
       peers'[a][m].tPeerSpec
         = adjacencies'[SmallestAdj(LiveAdjs(adjacencies', a, m))].peerSpec

\* C5: a NEIGHBOR_DOWN event leaves its adjacency absent whatever its state
\* was, and the peers of the event's area are recomputed: a DEL for the node is
\* emitted when the adjacency was its last non-restarting one in the area, an
\* ADD with the new spec when the removed link was the selected one and another
\* non-restarting link remains, and once the hold timer has expired the
\* adjacency database of that area is written in the same step and no
\* throttled advertisement stays pending.
C5_DownRemovesAndReadvertises ==
  [][HandlerRan({"NEIGHBOR_DOWN"}) =>
       LET n == lastOp'.node
           a == lastOp'.area
           k == <<lastOp'.node, lastOp'.iface>>
           was == /\ k \in DOMAIN adjacencies
                  /\ adjacencies[k].area = a
                  /\ ~adjacencies[k].isRestarting
           selected == /\ was
                       /\ n \in DOMAIN peers[a]
                       /\ peers[a][n].tPeerSpec = adjacencies[k].peerSpec
           live == LiveAdjs(adjacencies', a, n)
       IN /\ DOMAIN adjacencies' = (DOMAIN adjacencies) \ {k}
          /\ \A x \in DOMAIN adjacencies' : adjacencies'[x] = adjacencies[x]
          /\ PeersRecomputed(a)
          /\ (was /\ live = {}) =>
               /\ PeerDels(emitted'.peerUpdatesQueue, n) # {}
               /\ n \notin DOMAIN peers'[a]
          /\ (selected /\ live # {}) =>
               /\ \E j \in PeerAdds(emitted'.peerUpdatesQueue, n) :
                    emitted'.peerUpdatesQueue[j].peerAddParams[n]
                      = adjacencies'[SmallestAdj(live)].peerSpec
               /\ KeepsSmallestPeer(a, n)
          /\ ~adjHoldTimer =>
               /\ DOMAIN emitted'.persistKey = {a}
               /\ emitted'.persistKey[a] = buildAdjacencyDatabase(adjacencies', state', a)
               /\ ~advertiseAdjacenciesThrottled']_vars

\* After the hold, the selected link eth10 of node-b went down while eth2 stayed
\* up: the peer was re-added over eth2 and area1's database written at once
C5_Witness ==
  /\ lastOp = Op("NEIGHBOR_DOWN", "node-b", Eth10, "area1")
  /\ ~adjHoldTimer
  /\ LiveAdjs(adjacencies, "area1", "node-b") = {<<"node-b", Eth2>>}
  /\ PeerAdds(emitted.peerUpdatesQueue, "node-b") # {}
  /\ "area1" \in DOMAIN emitted.persistKey

-----------------------------------------------------------------------------
(* getPeersFromAdjacencies on arbitrary adjacency maps, in every iteration   *)
(* order                                                                     *)

\* Keys of the adjacency maps drawn: three parallel links to node-b, two to node-c
PeerKeys == ({"node-b"} \X {Eth1, Eth10, Eth2}) \cup ({"node-c"} \X {Eth1, Eth2})

\* The adjacency maps with at most MaxAdj entries, as neighborUpEvent and
\* neighborRestartingEvent can leave them
AdjacencyMaps ==
  UNION {{[k \in S |-> [area |-> f[k][1],
                        peerSpec |-> createPeerSpec(k[2], "fe80::1"),
                        isRestarting |-> f[k][2],
                        metric |-> 1,
                        rtt |-> Zero64]]
            : f \in [S -> Areas \X BOOLEAN]}
         : S \in {T \in SUBSET PeerKeys : Cardinality(T) <= MaxAdj}}

InitGetPeers == InitFrom(Configs({FALSE}), AdjacencyMaps)

\* One call getPeersFromAdjacencies(adjacencies, area), the map iterated in `order`
GetPeersCall(area, order) ==
  /\ ret' = getPeersFromAdjacenciesOrd(adjacencies, area, order)
  /\ lastOp' = Op("getPeersFromAdjacencies", "", NoArg, area)
  /\ stepParity' = 1 - stepParity
  /\ UNCHANGED <<config, adjacencies, peers, state, interfaces, ifIndexToName,
                 adjHoldTimer, advertiseAdjacenciesThrottled,
                 advertiseIfaceAddrThrottled, advertiseIfaceAddrTimer,
                 kvStoreKeys, kvPeerSessions, aborted, emitted, throttledPending,
                 promise, args, kvVars, fibers, hostVars, adjDbInKvStore>>

NextGetPeers ==
  \E area \in Areas, order \in Perms(DOMAIN adjacencies) : GetPeersCall(area, order)

SpecGetPeers == InitGetPeers /\ [][NextGetPeers]_vars

-----------------------------------------------------------------------------
(* C2 *)

\* C2: whatever the iteration order, getPeersFromAdjacencies returns exactly one
\* peer for every node with a non-restarting adjacency in the area, with the
\* spec of the non-restarting adjacency of the area whose interface name is
\* lexicographically smallest, and no peer for any other node.
C2_SmallestNonRestartingIface ==
  lastOp.op = "getPeersFromAdjacencies" =>
    /\ DOMAIN ret \subseteq Nodes
    /\ \A n \in Nodes :
         LET live == LiveAdjs(adjacencies, lastOp.area, n)
         IN IF live = {} THEN n \notin DOMAIN ret
            ELSE /\ n \in DOMAIN ret
                 /\ ret[n] = adjacencies[SmallestAdj(live)].peerSpec

\* node-b has eth10 and eth2 up in area1 and eth1 restarting: the peer is that
\* of eth10
C2_Witness ==
  /\ lastOp.op = "getPeersFromAdjacencies"
  /\ lastOp.area = "area1"
  /\ LiveAdjs(adjacencies, "area1", "node-b") = {<<"node-b", Eth10>>, <<"node-b", Eth2>>}
  /\ <<"node-b", Eth1>> \in DOMAIN adjacencies
  /\ adjacencies[<<"node-b", Eth1>>].isRestarting
  /\ ret = MapPut(EmptyMap, "node-b", createPeerSpec(Eth10, "fe80::1"))

-----------------------------------------------------------------------------
(* Metrics: one link to node-b, rtt measurements and operator overrides *)

\* 50 us: rtt / 100 is 0
Rtt50 == Int64(FALSE, 0, 50)

\* (2^32 + 5) * 100 us: rtt / 100 needs 33 bits
RttOver32 == Int64(FALSE, 2^16, 500)

\* 2^31 * 100 us: rtt / 100 is the first value above the largest int
RttSignBit == Int64(FALSE, 2^15, 0)

MetricRtts == {Rtt50, SmallRtt, RttOver32, RttSignBit}

\* Values an operator gives setLinkMetric / setAdjacencyMetric
LinkMetricValues == {NoMetric, <<0>>, <<5>>}

AdjMetricValues == {NoMetric, <<7>>}

InitMetric == InitWith(Configs(BOOLEAN))

NextMetric ==
  \/ \E rttUs \in MetricRtts :
       NeighborUp("NEIGHBOR_UP", "node-b", Eth2, "area1", "fe80::1", rttUs)
  \/ \E rttUs \in MetricRtts : NeighborRttChange("node-b", Eth2, "area1", rttUs)
  \/ NeighborRestarting("node-b", Eth2, "area1")
  \/ NeighborDown("node-b", Eth2, "area1")
  \/ LinkEvent(Eth2, 1, TRUE)
  \/ \E m \in LinkMetricValues : SetLinkMetric(Eth2, m)
  \/ \E m \in AdjMetricValues : SetAdjacencyMetric(Eth2, "node-b", m)
  \/ AdjHoldTimerExpired
  \/ AdjThrottleFired
  \/ IfaceThrottleFired

SpecMetric == InitMetric /\ [][NextMetric]_vars

-----------------------------------------------------------------------------
(* C6 *)

\* The step wrote nothing and pushed nothing
NothingEmitted ==
  /\ emitted'.peerUpdatesQueue = <<>>
  /\ emitted'.persistKey = EmptyMap
  /\ emitted'.configStore = <<>>
  /\ emitted'.prefixUpdatesQueue = <<>>
  /\ emitted'.interfaceUpdatesQueue = <<>>

\* C6: a NEIGHBOR_RTT_CHANGE event never adds or removes an adjacency, never
\* changes a restarting flag and never emits a KV-peer update; with
\* use-rtt-metric enabled and the adjacency known it sets that adjacency's
\* metric and rtt and requests the throttled advertisement (nothing is written
\* in the step); otherwise all LinkMonitor state is unchanged and nothing is
\* advertised.
C6_RttChangeFrame ==
  [][HandlerRan({"NEIGHBOR_RTT_CHANGE"}) =>
       LET k == <<lastOp'.node, lastOp'.iface>>
       IN /\ DOMAIN adjacencies' = DOMAIN adjacencies
          /\ \A x \in DOMAIN adjacencies :
               /\ adjacencies'[x].isRestarting = adjacencies[x].isRestarting
               /\ adjacencies'[x].area = adjacencies[x].area
               /\ adjacencies'[x].peerSpec = adjacencies[x].peerSpec
          /\ UNCHANGED <<peers, kvPeerSessions, state, interfaces, ifIndexToName,
                         adjHoldTimer, kvStoreKeys, advertiseIfaceAddrThrottled,
                         advertiseIfaceAddrTimer>>
          /\ NothingEmitted
          /\ IF config.useRttMetric /\ k \in DOMAIN adjacencies
             THEN /\ adjacencies'[k].rtt = lastOp'.arg
                  /\ adjacencies'[k].metric = getRttMetric(lastOp'.arg)
                  /\ \A x \in (DOMAIN adjacencies) \ {k} : adjacencies'[x] = adjacencies[x]
                  /\ advertiseAdjacenciesThrottled'
             ELSE UNCHANGED <<adjacencies, advertiseAdjacenciesThrottled,
                              throttledPending>>]_vars

\* With use-rtt-metric on, an RTT change to 50 us reached the known adjacency
\* while the throttle was idle: metric 1, throttle armed
C6_Witness ==
  /\ lastOp = OpArg("NEIGHBOR_RTT_CHANGE", "node-b", Eth2, "area1", Rtt50)
  /\ config.useRttMetric
  /\ <<"node-b", Eth2>> \in DOMAIN adjacencies
  /\ adjacencies[<<"node-b", Eth2>>].rtt = Rtt50
  /\ adjacencies[<<"node-b", Eth2>>].metric = 1
  /\ advertiseAdjacenciesThrottled
  /\ throttledPending = 1

-----------------------------------------------------------------------------
(* C7, C8 *)

\* m = max(1, rttUs / 100), the quotient taken in 64 bits
IsMaxOneRttOver100(m, rttUs) ==
  LET q == Quot100(rttUs)
  IN IF q.neg \/ (q.qh = 0 /\ q.ql = 0) THEN m = 1
     ELSE q.qh < 2^15 /\ m = q.qh * (2^16) + q.ql

\* The adjacencies of the databases built for all areas
AdvertisedAdjacencies ==
  UNION {buildAdjacencyDatabase(adjacencies, state, a).adjacencies : a \in Areas}

\* C7: in every advertised AdjacencyDatabase the metric of an adjacency is its
\* adjacency-metric override if set, else the link-metric override of its
\* interface if set, else the base metric: max(1, rtt_us / 100) of the latest
\* rtt with use-rtt-metric, 1 without.
C7_MetricPrecedence ==
  \A adj \in AdvertisedAdjacencies :
    LET k == <<adj.otherNodeName, adj.ifName>>
    IN IF k \in DOMAIN state.adjMetricOverrides
       THEN adj.metric = state.adjMetricOverrides[k]
       ELSE IF adj.ifName \in DOMAIN state.linkMetricOverrides
       THEN adj.metric = state.linkMetricOverrides[adj.ifName]
       ELSE IF config.useRttMetric
       THEN IsMaxOneRttOver100(adj.metric, adj.rtt)
       ELSE adj.metric = 1

\* C8: every advertised adjacency metric is at least 1, for every rtt and after
\* every operator override.
C8_MetricPositive == \A adj \in AdvertisedAdjacencies : adj.metric >= 1

-----------------------------------------------------------------------------
(* Hold timer and throttle: every kind of event, one link to node-b, the     *)
(* loopback with one global address                                          *)

InitHold == InitWith(Configs({TRUE}))

NextHold ==
  \/ \E a \in Areas : NeighborUp("NEIGHBOR_UP", "node-b", Eth2, a, "fe80::1", SmallRtt)
  \/ NeighborDown("node-b", Eth2, "area1")
  \/ NeighborRttChange("node-b", Eth2, "area1", Rtt50)
  \/ LinkEvent(Lo, 1, TRUE)
  \/ LinkEvent(Eth2, 2, TRUE)
  \/ \E isValid \in BOOLEAN : AddrEvent(1, GlobalNet, isValid)
  \/ \E isOverloaded \in BOOLEAN : SetNodeOverload(isOverloaded)
  \/ \E isOverloaded \in BOOLEAN : SetInterfaceOverload(Eth2, isOverloaded)
  \/ \E m \in {NoMetric, <<5>>} : SetLinkMetric(Eth2, m)
  \/ \E m \in {NoMetric, <<7>>} : SetAdjacencyMetric(Eth2, "node-b", m)
  \/ AdjHoldTimerExpired
  \/ AdjThrottleFired
  \/ IfaceThrottleFired

SpecHold == InitHold /\ [][NextHold]_vars

-----------------------------------------------------------------------------
(* C9 *)

\* The global-unicast networks of the active interfaces area a redistributes
RedistributedNetworks(ifs, a) ==
  UNION {ifs[ifName].networks \ {LinkLocalNet} :
           ifName \in {x \in DOMAIN ifs :
                         /\ ifs[x].isUp
                         /\ ~ifs[x].inBackoff
                         /\ shouldRedistributeIface(a, x)}}

\* The prefix requests are one LOOPBACK sync per area with that area's networks
SyncsEveryArea(queue, ifs) ==
  /\ Len(queue) = Cardinality(Areas)
  /\ \A a \in Areas :
       \E j \in 1..Len(queue) :
         /\ queue[j].dstAreas = {a}
         /\ queue[j].type = "LOOPBACK"
         /\ {x.prefix : x \in queue[j].prefixes} = RedistributedNetworks(ifs, a)

\* C9: while the hold timer is scheduled no adj:<node> key is written and no
\* LOOPBACK prefix sync is pushed, whatever handler runs; the step in which
\* the hold timer fires writes the adjacency database of every area and syncs
\* the redistributed addresses, both built from the state accumulated so far.
C9_HoldTimerDelaysAdvertisement ==
  /\ [](adjHoldTimer =>
          /\ kvStoreKeys = {}
          /\ emitted.persistKey = EmptyMap
          /\ emitted.configStore = <<>>
          /\ emitted.prefixUpdatesQueue = <<>>)
  /\ [][HandlerRan({"adjHoldTimer"}) =>
          /\ adjHoldTimer /\ ~adjHoldTimer'
          /\ DOMAIN emitted'.persistKey = Areas
          /\ \A a \in Areas :
               emitted'.persistKey[a] = buildAdjacencyDatabase(adjacencies, state, a)
          /\ kvStoreKeys' = Areas
          /\ SyncsEveryArea(emitted'.prefixUpdatesQueue, interfaces)]_vars

\* The hold timer fired after a neighbor came up, an adjacency metric was
\* overridden and the loopback got its address: all three are advertised
C9_Witness ==
  /\ lastOp.op = "adjHoldTimer"
  /\ \E a \in Areas : \E adj \in emitted.persistKey[a].adjacencies : adj.metric = 7
  /\ \E j \in 1..Len(emitted.prefixUpdatesQueue) :
       emitted.prefixUpdatesQueue[j].prefixes # {}

-----------------------------------------------------------------------------
(* C10 *)

\* The handlers that request the throttled advertisement
ThrottledOps ==
  {"NEIGHBOR_UP", "NEIGHBOR_RESTARTED", "NEIGHBOR_RTT_CHANGE",
   "setInterfaceOverload", "setLinkMetric", "setAdjacencyMetric"}

\* C10: a request arms the idle throttle and is absorbed by an armed one
\* without advertising; the throttle fires only when armed, and then runs
\* advertiseAdjacencies exactly once for all requests absorbed and is idle
\* again; an advertisement written while it is armed cancels it; the throttle
\* changes state in no other way.
C10_ThrottleCoalesces ==
  [][/\ HandlerRan({"advertiseAdjacenciesThrottled"}) =>
          /\ advertiseAdjacenciesThrottled
          /\ lastOp'.arg = throttledPending /\ throttledPending >= 1
          /\ emitted'.advertiseAdjacenciesRuns = 1
          /\ ~advertiseAdjacenciesThrottled' /\ throttledPending' = 0
     /\ (HandlerRan(ThrottledOps) /\ advertiseAdjacenciesThrottled) =>
          /\ advertiseAdjacenciesThrottled'
          /\ emitted'.advertiseAdjacenciesRuns = 0
          /\ emitted'.persistKey = EmptyMap
     /\ emitted'.persistKey # EmptyMap =>
          ~advertiseAdjacenciesThrottled' /\ throttledPending' = 0
     /\ (~advertiseAdjacenciesThrottled /\ advertiseAdjacenciesThrottled') =>
          lastOp'.op \in ThrottledOps /\ throttledPending' = 1
     /\ (advertiseAdjacenciesThrottled /\ ~advertiseAdjacenciesThrottled') =>
          \/ lastOp'.op = "advertiseAdjacenciesThrottled"
          \/ emitted'.persistKey # EmptyMap]_vars

\* After the hold, the throttle fired with MaxPending requests absorbed: one run
C10_Witness ==
  /\ lastOp.op = "advertiseAdjacenciesThrottled"
  /\ lastOp.arg = MaxPending
  /\ emitted.advertiseAdjacenciesRuns = 1
  /\ DOMAIN emitted.persistKey = Areas
  /\ ~advertiseAdjacenciesThrottled

-----------------------------------------------------------------------------
(* Operator commands: a link to node-b in area2 over eth2, a link to node-c  *)
(* in area1 over eth10; eth2 is unknown until its link event arrives         *)

InitCmd == InitWith(Configs({FALSE}))

NextCmd ==
  \/ NeighborUp("NEIGHBOR_UP", "node-b", Eth2, "area2", "fe80::1", SmallRtt)
  \/ NeighborUp("NEIGHBOR_UP", "node-c", Eth10, "area1", "fe80::1", SmallRtt)
  \/ NeighborDown("node-c", Eth10, "area1")
  \/ LinkEvent(Eth2, 2, TRUE)
  \/ \E isOverloaded \in BOOLEAN : SetNodeOverload(isOverloaded)
  \/ \E isOverloaded \in BOOLEAN : SetInterfaceOverload(Eth2, isOverloaded)
  \/ \E m \in {NoMetric, <<5>>} : SetLinkMetric(Eth2, m)
  \/ \E m \in {NoMetric, <<7>>} : SetAdjacencyMetric(Eth2, "node-b", m)
  \/ AdjHoldTimerExpired
  \/ AdjThrottleFired
  \/ IfaceThrottleFired

SpecCmd == InitCmd /\ [][NextCmd]_vars

\* A command ran in this step and changed state_
CommandChangedState == HandlerRan(CommandOps) /\ state' # state

\* The step wrote the database of every area, built from the state it leaves
WritesEveryArea ==
  /\ DOMAIN emitted'.persistKey = Areas
  /\ \A a \in Areas :
       emitted'.persistKey[a] = buildAdjacencyDatabase(adjacencies', state', a)

\* A command of this step named an interface / adjacency LinkMonitor does not know
UnknownTarget ==
  \/ /\ HandlerRan({"setInterfaceOverload", "setLinkMetric"})
     /\ lastOp'.iface \notin DOMAIN interfaces
  \/ /\ HandlerRan({"setAdjacencyMetric"})
     /\ <<lastOp'.node, lastOp'.iface>> \notin DOMAIN adjacencies

-----------------------------------------------------------------------------
(* C11 *)

\* C11: when a command that changed state_ fulfils its caller's promise, the
\* new state_ has been written to the config store in that same run.
C11_PersistedBeforeResponse ==
  [][(CommandChangedState /\ promise' = "setValue") =>
       \E j \in 1..Len(emitted'.configStore) : emitted'.configStore[j] = state']_vars

-----------------------------------------------------------------------------
(* C12 *)

\* The step wrote no adjacency database
WritesNoArea == emitted'.persistKey = EmptyMap

-----------------------------------------------------------------------------
(* C13 *)

\* C13: a setInterfaceOverload or setLinkMetric naming an unknown interface, or
\* a setAdjacencyMetric naming an unknown adjacency, completes its caller's
\* promise with an exception, not with a value.
C13_UnknownTargetIsError ==
  [][UnknownTarget => promise' = "setException"]_vars

-----------------------------------------------------------------------------
(* C14 *)

\* C14: a setInterfaceOverload or setLinkMetric naming an unknown interface, or
\* a setAdjacencyMetric naming an unknown adjacency, leaves state_, the
\* adjacencies and the peers unchanged, writes and pushes nothing, and leaves
\* the throttle as it was: it is neither armed nor fired.
C14_UnknownTargetChangesNothing ==
  [][UnknownTarget =>
       /\ UNCHANGED <<state, adjacencies, peers, interfaces, ifIndexToName,
                      adjHoldTimer, advertiseAdjacenciesThrottled, throttledPending,
                      advertiseIfaceAddrThrottled, advertiseIfaceAddrTimer,
                      kvStoreKeys, kvPeerSessions>>
       /\ NothingEmitted
       /\ emitted'.advertiseAdjacenciesRuns = 0]_vars

\* After the hold, with the throttle idle, setLinkMetric(eth2, 5) arrived before
\* any link event for eth2: no override is stored and the throttle stays idle
C14_Witness ==
  /\ lastOp = OpArg("setLinkMetric", "", Eth2, "", <<5>>)
  /\ Eth2 \notin DOMAIN interfaces
  /\ ~adjHoldTimer
  /\ state.linkMetricOverrides = EmptyMap
  /\ ~advertiseAdjacenciesThrottled
  /\ promise = "setValue"

-----------------------------------------------------------------------------
(* Startup: the state the constructor loads from the config store            *)

\* Variant of the state load in which override-drain-state is ignored
loadLinkMonitorStateNoOverride(stored, assumeDrained, overrideDrainState) ==
  IF stored # <<>> THEN stored[1] ELSE InitialState(assumeDrained)

\* The constructor's state load: `stored` is what the config store holds under
\* link-monitor-config, <<>> when the key is absent
loadLinkMonitorState(stored, assumeDrained, overrideDrainState) ==
  LET loaded == IF stored # <<>> THEN stored[1] ELSE InitialState(assumeDrained)
  IN IF overrideDrainState THEN [loaded EXCEPT !.isOverloaded = assumeDrained]
     ELSE loaded

\* The states a previous run can have stored
StoredStates ==
  [nodeLabel : {0, 101},
   isOverloaded : BOOLEAN,
   overloadedLinks : {{}, {Eth2}},
   linkMetricOverrides : {EmptyMap, MapPut(EmptyMap, Eth2, 5)},
   adjMetricOverrides : {EmptyMap, MapPut(EmptyMap, <<"node-b", Eth2>>, 7)}]

\* Constructor arguments, with the content of the config store at startup
LoadConfigs ==
  [nodeId : {"node-a"}, useRttMetric : {FALSE}, enableSegmentRouting : {TRUE},
   assumeDrained : BOOLEAN, overrideDrainState : BOOLEAN,
   storedState : {<<>>} \cup {<<st>> : st \in StoredStates}]

\* The constructor run on one of the arguments in cfgs
InitLoadFrom(cfgs) ==
  /\ config \in cfgs
  /\ state = loadLinkMonitorState(config.storedState, config.assumeDrained,
                                  config.overrideDrainState)
  /\ adjacencies = EmptyMap
  /\ peers = [a \in Areas |-> EmptyMap]
  /\ interfaces = EmptyMap
  /\ ifIndexToName = EmptyMap
  /\ adjHoldTimer = TRUE
  /\ advertiseAdjacenciesThrottled = FALSE
  /\ advertiseIfaceAddrThrottled = FALSE
  /\ advertiseIfaceAddrTimer = FALSE
  /\ kvStoreKeys = {}
  /\ kvPeerSessions = [a \in Areas |-> {}]
  /\ aborted = FALSE
  /\ lastOp = Op("LinkMonitor", "", NoArg, "")
  /\ emitted = Emitted(NoPeerUpdate, Effect(FALSE), <<>>, <<>>, 0)
  /\ throttledPending = 0
  /\ ret = EmptyMap
  /\ stepParity = 0
  /\ promise = "none"
  /\ args = <<>>
  /\ KvStoresInit
  /\ FibersInit
  /\ HostInit({})

InitLoad == InitLoadFrom(LoadConfigs)

NextLoad ==
  \/ NeighborUp("NEIGHBOR_UP", "node-b", Eth2, "area1", "fe80::1", SmallRtt)
  \/ \E isOverloaded \in BOOLEAN : SetNodeOverload(isOverloaded)
  \/ AdjHoldTimerExpired
  \/ AdjThrottleFired

SpecLoad == InitLoad /\ [][NextLoad]_vars

-----------------------------------------------------------------------------
(* C15 *)

\* C15: right after construction, with nothing stored the node-overload flag
\* equals assumeDrained and everything else is empty; with a state stored, the
\* node label, the overloaded links and both kinds of metric override are the
\* stored ones and the overload flag is the stored one, unless
\* override-drain-state is set: then it is assumeDrained.
C15_StartupState ==
  lastOp.op = "LinkMonitor" =>
    IF config.storedState = <<>>
    THEN /\ state.isOverloaded = config.assumeDrained
         /\ state.nodeLabel = 0
         /\ state.overloadedLinks = {}
         /\ DOMAIN state.linkMetricOverrides = {}
         /\ DOMAIN state.adjMetricOverrides = {}
    ELSE LET stored == config.storedState[1]
         IN /\ state.nodeLabel = stored.nodeLabel
            /\ state.overloadedLinks = stored.overloadedLinks
            /\ state.linkMetricOverrides = stored.linkMetricOverrides
            /\ state.adjMetricOverrides = stored.adjMetricOverrides
            /\ state.isOverloaded = IF config.overrideDrainState
                                    THEN config.assumeDrained
                                    ELSE stored.isOverloaded

\* A drained state with an overloaded link and a node label was stored, and
\* the node starts with override-drain-state set and assumeDrained unset: it
\* starts undrained and keeps the rest
C15_Witness ==
  /\ lastOp.op = "LinkMonitor"
  /\ config.storedState # <<>>
  /\ config.storedState[1].isOverloaded
  /\ config.overrideDrainState /\ ~config.assumeDrained
  /\ ~state.isOverloaded
  /\ state.overloadedLinks = {Eth2}
  /\ state.nodeLabel = 101

-----------------------------------------------------------------------------
(* Interfaces: link and address events for the loopback and eth2, flap       *)
(* backoff, and an address event for an index no link event has named        *)

\* ifIndex of the loopback, of eth2, and one no link has
LoIndex == 1
Eth2Index == 2
UnknownIndex == 3

InitIf == InitWith(Configs({FALSE}))

NextIf ==
  \/ \E isUp \in BOOLEAN : LinkEvent(Lo, LoIndex, isUp)
  \/ \E isUp \in BOOLEAN : LinkEvent(Eth2, Eth2Index, isUp)
  \/ \E ifIndex \in {LoIndex, Eth2Index, UnknownIndex}, isValid \in BOOLEAN :
       AddrEvent(ifIndex, GlobalNet, isValid)
  \/ NeighborUp("NEIGHBOR_UP", "node-b", Eth2, "area1", "fe80::1", SmallRtt)
  \/ AdjHoldTimerExpired
  \/ AdjThrottleFired
  \/ IfaceThrottleFired
  \/ IfaceTimerFired
  \/ \E ifName \in {Lo, Eth2} : BackoffExpired(ifName)

SpecIf == InitIf /\ [][NextIf]_vars

\* The interface is up and outside flap backoff
UpOutsideBackoff(ifs, ifName) == ifs[ifName].isUp /\ ~ifs[ifName].inBackoff

\* The interface names the tags of a prefix entry carry
TaggedInterfaces(entry) == {t[2] : t \in {x \in entry.tags : Len(x) = 2}}

\* The handlers that run advertiseIfaceAddr()
IfaceAdvertiseOps == {"advertiseIfaceAddrThrottled", "advertiseIfaceAddrTimer"}

-----------------------------------------------------------------------------
(* C16 *)

\* C16: in every InterfaceDatabase published, an interface's isUp is (up and
\* not in backoff); no prefix of a redistribution request comes from an
\* interface that is down or in backoff; and no handler drops an interface
\* from the interface table, whatever its state.
C16_ActiveIsUpOutsideBackoff ==
  /\ [](/\ \A j \in 1..Len(emitted.interfaceUpdatesQueue) :
            LET ifDb == emitted.interfaceUpdatesQueue[j]
            IN \A ifName \in DOMAIN ifDb.interfaces :
                 /\ ifName \in DOMAIN interfaces
                 /\ ifDb.interfaces[ifName].isUp = UpOutsideBackoff(interfaces, ifName)
        /\ \A j \in 1..Len(emitted.prefixUpdatesQueue) :
            \A entry \in emitted.prefixUpdatesQueue[j].prefixes :
              \A ifName \in TaggedInterfaces(entry) :
                ifName \in DOMAIN interfaces /\ UpOutsideBackoff(interfaces, ifName))
  /\ [][DOMAIN interfaces \subseteq DOMAIN interfaces']_vars

\* After the hold, eth2 is up again with a global address but still in
\* backoff: it is published with isUp false and area2's request has no prefix
\* of it, while the loopback's prefix is there
C16_Witness ==
  /\ lastOp.op \in IfaceAdvertiseOps
  /\ ~adjHoldTimer
  /\ Eth2 \in DOMAIN interfaces /\ Lo \in DOMAIN interfaces
  /\ interfaces[Eth2].isUp /\ interfaces[Eth2].inBackoff
  /\ GlobalNet \in interfaces[Eth2].networks
  /\ ~emitted.interfaceUpdatesQueue[1].interfaces[Eth2].isUp
  /\ \E j \in 1..Len(emitted.prefixUpdatesQueue) :
       /\ emitted.prefixUpdatesQueue[j].dstAreas = {"area2"}
       /\ {TaggedInterfaces(x) : x \in emitted.prefixUpdatesQueue[j].prefixes} = {{Lo}}

-----------------------------------------------------------------------------
(* C17 *)

\* The prefix entries area a is to get: one per global-unicast network of each
\* interface that is up, outside backoff and matched by a's redistribute regex
RedistributedEntries(ifs, a) ==
  {entry \in [prefix : Networks \ {LinkLocalNet},
              tags : {{<<"INTERFACE_SUBNET">>, <<config.nodeId, ifName>>} : ifName \in DOMAIN ifs}] :
     \E ifName \in DOMAIN ifs :
       /\ TaggedInterfaces(entry) = {ifName}
       /\ UpOutsideBackoff(ifs, ifName)
       /\ entry.prefix \in ifs[ifName].networks
       /\ shouldRedistributeIface(a, ifName)}

\* The queue holds exactly one request per area, a LOOPBACK sync for that area
\* alone with exactly that area's entries
OneSyncPerArea(queue, ifs) ==
  /\ Len(queue) = Cardinality(Areas)
  /\ \A a \in Areas :
       \E j \in 1..Len(queue) :
         /\ queue[j].cmd = "SYNC_PREFIXES_BY_TYPE"
         /\ queue[j].type = "LOOPBACK"
         /\ queue[j].dstAreas = {a}
         /\ queue[j].prefixes = RedistributedEntries(ifs, a)

\* C17: every redistribution run after the hold timer (the hold timer's own
\* step, and every advertiseIfaceAddr after it) pushes exactly one
\* SYNC_PREFIXES_BY_TYPE request of type LOOPBACK per area with dstAreas = {that
\* area}, whose prefixes are exactly the global-unicast addresses of the active
\* interfaces the area redistributes, each tagged with its interface; an area
\* with none gets a request with no prefixes.  No other step pushes a request.
C17_OneLoopbackSyncPerArea ==
  [][IF \/ HandlerRan({"adjHoldTimer"})
        \/ HandlerRan(IfaceAdvertiseOps) /\ ~adjHoldTimer
     THEN OneSyncPerArea(emitted'.prefixUpdatesQueue, interfaces')
     ELSE emitted'.prefixUpdatesQueue = <<>>]_vars

\* After the hold, the loopback went down while eth2 is active with a global
\* address: area1 gets a request with no prefixes, area2 one with eth2's prefix
C17_Witness ==
  /\ lastOp.op \in IfaceAdvertiseOps
  /\ ~adjHoldTimer
  /\ Lo \in DOMAIN interfaces /\ GlobalNet \in interfaces[Lo].networks
  /\ ~interfaces[Lo].isUp
  /\ Len(emitted.prefixUpdatesQueue) = 2
  /\ \E j \in 1..2 :
       /\ emitted.prefixUpdatesQueue[j].dstAreas = {"area1"}
       /\ emitted.prefixUpdatesQueue[j].prefixes = {}
  /\ \E j \in 1..2 :
       /\ emitted.prefixUpdatesQueue[j].dstAreas = {"area2"}
       /\ emitted.prefixUpdatesQueue[j].prefixes =
            {[prefix |-> GlobalNet, tags |-> {<<"INTERFACE_SUBNET">>, <<"node-a", Eth2>>}]}

-----------------------------------------------------------------------------
(* C18 *)

\* C18: an address event whose ifIndex is not in the ifIndex-to-name cache
\* changes neither the interface table nor the cache, the adjacencies, the
\* peers, the state or any timer or throttle, writes and pushes nothing, and
\* leaves the process running, so that the events that follow are handled.
C18_UnknownIndexDropped ==
  [][(HandlerRan({"IfAddress"}) /\ lastOp'.arg[1] \notin DOMAIN ifIndexToName) =>
       /\ UNCHANGED <<interfaces, ifIndexToName, adjacencies, peers, state,
                      adjHoldTimer, advertiseAdjacenciesThrottled, throttledPending,
                      advertiseIfaceAddrThrottled, advertiseIfaceAddrTimer,
                      kvStoreKeys, kvPeerSessions>>
       /\ NothingEmitted
       /\ ~aborted']_vars

\* With both links known, an adjacency up and no advertisement pending, an
\* address event for index 3 arrived: still nothing is pending
C18_Witness ==
  /\ lastOp = OpArg("IfAddress", "", NoArg, "", <<UnknownIndex, GlobalNet, TRUE>>)
  /\ DOMAIN ifIndexToName = {LoIndex, Eth2Index}
  /\ DOMAIN interfaces = {Lo, Eth2}
  /\ DOMAIN adjacencies # {}
  /\ ~advertiseIfaceAddrThrottled
  /\ ~aborted

-----------------------------------------------------------------------------
(* selectBestPrefixMetrics on arbitrary maps of prefix metrics, in every     *)
(* iteration order                                                           *)

\* std::numeric_limits<int32_t>::min() and max()
Int32Max == 2147483647
Int32Min == (-Int32Max) - 1

\* Keys of the maps drawn
PrefixKeys == {"k1", "k2", "k3"}

\* thrift::PrefixMetrics values drawn: the extremes of int32 and values between
PrefixMetricsValues ==
  [path_preference : {Int32Min, 0},
   source_preference : {Int32Min, 0},
   distance : {Int32Min, 0, 4, Int32Max}]

\* std::tuple operator<, lexicographic
TupleLess(l, r) ==
  \/ l[1] < r[1]
  \/ l[1] = r[1] /\ l[2] < r[2]
  \/ l[1] = r[1] /\ l[2] = r[2] /\ l[3] < r[3]

\* The outcomes of distance * -1 when distance is the smallest int32 (signed
\* overflow): the product wraps to the smallest int32, or the build traps
NegationOverflowOutcomes == {"wrap", "trap"}

\* distance * -1 in int32 when it does not trap
negateInt32(distance) == IF distance = Int32Min THEN Int32Min ELSE -distance

\* The loop of selectBestPrefixMetrics over the map in iteration order `order`
RECURSIVE selectBestPrefixMetricsLoop(_, _, _, _)
selectBestPrefixMetricsLoop(prefixes, order, bestMetricsTuple, bestKeys) ==
  IF order = <<>> THEN bestKeys
  ELSE LET key == Head(order)
           metrics == prefixes[key]
           metricsTuple == <<metrics.path_preference, metrics.source_preference,
                             negateInt32(metrics.distance)>>
       IN IF TupleLess(metricsTuple, bestMetricsTuple)
          THEN selectBestPrefixMetricsLoop(prefixes, Tail(order), bestMetricsTuple, bestKeys)
          ELSE IF TupleLess(bestMetricsTuple, metricsTuple)
          THEN selectBestPrefixMetricsLoop(prefixes, Tail(order), metricsTuple, {key})
          ELSE selectBestPrefixMetricsLoop(prefixes, Tail(order), bestMetricsTuple,
                                           bestKeys \cup {key})

\* selectBestPrefixMetrics(prefixes); `overflow` is the outcome the build gives
\* a signed overflow
selectBestPrefixMetrics(prefixes, order, overflow) ==
  IF overflow = "trap" /\ \E k \in DOMAIN prefixes : prefixes[k].distance = Int32Min
  THEN [trapped |-> TRUE, bestKeys |-> {}]
  ELSE [trapped |-> FALSE,
        bestKeys |-> selectBestPrefixMetricsLoop(
                       prefixes, order, <<Int32Min, Int32Min, Int32Min>>, {})]

\* The maps from some of the keys to metrics
PrefixMetricsMaps == UNION {[S -> PrefixMetricsValues] : S \in SUBSET PrefixKeys}

\* The state in which a function is called on one of the arguments of argSet:
\* LinkMonitor as constructed, which the call does not touch
InitCalls(argSet) ==
  /\ config \in Configs({FALSE})
  /\ args \in argSet
  /\ adjacencies = EmptyMap
  /\ peers = [a \in Areas |-> EmptyMap]
  /\ state = InitialState(config.assumeDrained)
  /\ interfaces = EmptyMap
  /\ ifIndexToName = EmptyMap
  /\ adjHoldTimer = TRUE
  /\ advertiseAdjacenciesThrottled = FALSE
  /\ advertiseIfaceAddrThrottled = FALSE
  /\ advertiseIfaceAddrTimer = FALSE
  /\ kvStoreKeys = {}
  /\ kvPeerSessions = [a \in Areas |-> {}]
  /\ aborted = FALSE
  /\ lastOp = Op("LinkMonitor", "", NoArg, "")
  /\ emitted = Emitted(NoPeerUpdate, Effect(FALSE), <<>>, <<>>, 0)
  /\ throttledPending = 0
  /\ ret = EmptyMap
  /\ stepParity = 0
  /\ promise = "none"
  /\ KvStoresInit
  /\ FibersInit
  /\ HostInit({})

\* A call of function `op` on args that returned `result`
Returned(op, result) ==
  /\ ret' = result
  /\ lastOp' = Op(op, "", NoArg, "")
  /\ stepParity' = 1 - stepParity
  /\ UNCHANGED <<config, adjacencies, peers, state, interfaces, ifIndexToName,
                 adjHoldTimer, advertiseAdjacenciesThrottled,
                 advertiseIfaceAddrThrottled, advertiseIfaceAddrTimer,
                 kvStoreKeys, kvPeerSessions, aborted, emitted, throttledPending,
                 promise, args, kvVars, fibers, hostVars, adjDbInKvStore>>

InitBest == InitCalls(PrefixMetricsMaps)

\* One call selectBestPrefixMetrics(args), the map iterated in `order`
SelectBestCall(order, overflow) ==
  Returned("selectBestPrefixMetrics", selectBestPrefixMetrics(args, order, overflow))

NextBest ==
  \E order \in Perms(DOMAIN args), overflow \in NegationOverflowOutcomes :
    SelectBestCall(order, overflow)

SpecBest == InitBest /\ [][NextBest]_vars

-----------------------------------------------------------------------------
(* C19 *)

\* Entry l is strictly better than entry r in the order of
\* (path-preference, source-preference, -distance)
BetterMetrics(l, r) ==
  \/ l.path_preference > r.path_preference
  \/ /\ l.path_preference = r.path_preference
     /\ l.source_preference > r.source_preference
  \/ /\ l.path_preference = r.path_preference
     /\ l.source_preference = r.source_preference
     /\ l.distance < r.distance

\* The keys of the entries no entry is better than
BestKeys(prefixes) ==
  {k \in DOMAIN prefixes : \A j \in DOMAIN prefixes : ~BetterMetrics(prefixes[j], prefixes[k])}

\* C19: whatever the iteration order, selectBestPrefixMetrics returns exactly
\* the keys whose (path-preference, source-preference, -distance) is the
\* lexicographic maximum over all entries: every tied best entry, no other,
\* and at least one when the map is not empty.
C19_BestPrefixMetrics ==
  lastOp.op = "selectBestPrefixMetrics" =>
    /\ ~ret.trapped
    /\ ret.bestKeys = BestKeys(args)
    /\ DOMAIN args # {} => ret.bestKeys # {}

-----------------------------------------------------------------------------
(* selectMplsNextHops on the next-hop lists of one MPLS route                *)

\* Longest next-hop list drawn
MaxNextHops == 3

\* thrift::MplsAction: PHP carries no label, SWAP the label swapped in
MplsActions ==
  {[action |-> "PHP", swapLabel |-> <<>>],
   [action |-> "SWAP", swapLabel |-> <<100>>],
   [action |-> "SWAP", swapLabel |-> <<200>>]}

\* thrift::NextHopThrift of an MPLS route
MplsNextHops == [address : {"N1", "N2"}, mplsAction : MplsActions]

NextHopLists == UNION {[1..n -> MplsNextHops] : n \in 0..MaxNextHops}

IsPhp(nextHop) == nextHop.mplsAction.action = "PHP"

IsSwap(nextHop) == nextHop.mplsAction.action = "SWAP"

\* Variant of selectMplsNextHops that returns the next-hops as given
selectMplsNextHopsAll(nextHops) == nextHops

\* selectMplsNextHops: the PHP next-hops if there is one, else the SWAP ones
selectMplsNextHops(nextHops) ==
  IF SelectSeq(nextHops, IsPhp) # <<>> THEN SelectSeq(nextHops, IsPhp)
  ELSE SelectSeq(nextHops, IsSwap)

InitMpls == InitCalls(NextHopLists)

\* One call selectMplsNextHops(args)
SelectMplsCall == Returned("selectMplsNextHops", selectMplsNextHops(args))

NextMpls == SelectMplsCall

SpecMpls == InitMpls /\ [][NextMpls]_vars

-----------------------------------------------------------------------------
(* C20 *)

\* The next-hops of a list, as a set
NextHopSet(nextHops) == {nextHops[j] : j \in 1..Len(nextHops)}

\* C20: selectMplsNextHops returns next-hops of the list given, all with the
\* same action code: exactly the PHP next-hops, and no SWAP next-hop, if the
\* list has a PHP next-hop, and the SWAP next-hops otherwise.
C20_PhpPreferredOverSwap ==
  lastOp.op = "selectMplsNextHops" =>
    LET given == NextHopSet(args)
        result == NextHopSet(ret)
    IN /\ result \subseteq given
       /\ \A x, y \in result : x.mplsAction.action = y.mplsAction.action
       /\ IF \E x \in given : x.mplsAction.action = "PHP"
          THEN result = {x \in given : x.mplsAction.action = "PHP"}
          ELSE result = {x \in given : x.mplsAction.action = "SWAP"}

\* {PHP via N1, SWAP(100) via N2} was given: only the PHP next-hop is returned
C20_Witness ==
  /\ lastOp.op = "selectMplsNextHops"
  /\ args = <<[address |-> "N1", mplsAction |-> [action |-> "PHP", swapLabel |-> <<>>]],
              [address |-> "N2", mplsAction |-> [action |-> "SWAP", swapLabel |-> <<100>>]]>>
  /\ ret = <<[address |-> "N1", mplsAction |-> [action |-> "PHP", swapLabel |-> <<>>]]>>

-----------------------------------------------------------------------------
(* findDeltaRoutes *)

\* Bound on the number of unicast prefixes of a route database
MaxRoutes == 2

RoutePrefixes == 1..MaxRoutes

RouteLabels == {100}

\* Sorted next-hop lists of a route
RouteNextHops == {<<1>>, <<1, 2>>}

\* thrift::UnicastRoute
UnicastRoutes == [dest : RoutePrefixes, nextHops : RouteNextHops]

\* thrift::MplsRoute
MplsRoutes == [topLabel : RouteLabels, nextHops : RouteNextHops]

\* The prefix of a unicast route, the label of an MPLS route
RouteKey(route) ==
  IF "dest" \in DOMAIN route THEN route.dest ELSE route.topLabel

\* Order of routes: by prefix (label), then by next-hop list
RouteLess(l, r) ==
  \/ RouteKey(l) < RouteKey(r)
  \/ /\ RouteKey(l) = RouteKey(r)
     /\ StrLess(l.nextHops, r.nextHops)

\* The lists of routes sorted by prefix (label), one route per prefix (label)
SortedRouteLists(routes) ==
  {l \in UNION {[1..n -> routes] : n \in 0..Cardinality({RouteKey(r) : r \in routes})} :
     \A j \in 1..(Len(l) - 1) : RouteKey(l[j]) < RouteKey(l[j + 1])}

\* thrift::RouteDatabase
RouteDatabases ==
  [unicastRoutes : SortedRouteLists(UnicastRoutes),
   mplsRoutes : SortedRouteLists(MplsRoutes)]

\* std::set_difference of two sorted lists: the routes of a that are not in b
RECURSIVE setDifference(_, _)
setDifference(a, b) ==
  IF a = <<>> THEN <<>>
  ELSE IF b = <<>> THEN a
  ELSE IF RouteLess(Head(a), Head(b)) THEN <<Head(a)>> \o setDifference(Tail(a), b)
  ELSE IF RouteLess(Head(b), Head(a)) THEN setDifference(a, Tail(b))
  ELSE setDifference(Tail(a), Tail(b))

\* The prefixes (labels) of a list of routes
RouteKeys(routes) == {RouteKey(routes[j]) : j \in 1..Len(routes)}

\* Variant of findDeltaRoutes that compares routes by prefix (label) alone
findDeltaRoutesByKey(newRouteDb, oldRouteDb) ==
  LET fresh(new, old) == SelectSeq(new, LAMBDA r : RouteKey(r) \notin RouteKeys(old))
  IN [unicastRoutesToUpdate |-> fresh(newRouteDb.unicastRoutes, oldRouteDb.unicastRoutes),
      unicastRoutesToDelete |->
        RouteKeys(oldRouteDb.unicastRoutes) \ RouteKeys(newRouteDb.unicastRoutes),
      mplsRoutesToUpdate |-> fresh(newRouteDb.mplsRoutes, oldRouteDb.mplsRoutes),
      mplsRoutesToDelete |->
        RouteKeys(oldRouteDb.mplsRoutes) \ RouteKeys(newRouteDb.mplsRoutes)]

\* findDeltaRoutes: the routes to update are new - old, the prefixes (labels)
\* to delete are those of old - new that are not updated
findDeltaRoutes(newRouteDb, oldRouteDb) ==
  LET unicastRoutesToUpdate ==
        setDifference(newRouteDb.unicastRoutes, oldRouteDb.unicastRoutes)
      unicastRoutesToDelete ==
        setDifference(oldRouteDb.unicastRoutes, newRouteDb.unicastRoutes)
      mplsRoutesToUpdate ==
        setDifference(newRouteDb.mplsRoutes, oldRouteDb.mplsRoutes)
      mplsRoutesToDelete ==
        setDifference(oldRouteDb.mplsRoutes, newRouteDb.mplsRoutes)
  IN [unicastRoutesToUpdate |-> unicastRoutesToUpdate,
      unicastRoutesToDelete |->
        RouteKeys(unicastRoutesToDelete) \ RouteKeys(unicastRoutesToUpdate),
      mplsRoutesToUpdate |-> mplsRoutesToUpdate,
      mplsRoutesToDelete |->
        RouteKeys(mplsRoutesToDelete) \ RouteKeys(mplsRoutesToUpdate)]

InitDelta == InitCalls(RouteDatabases \X RouteDatabases)

\* One call findDeltaRoutes(newRouteDb, oldRouteDb) with args = <<new, old>>
FindDeltaCall == Returned("findDeltaRoutes", findDeltaRoutes(args[1], args[2]))

NextDelta == FindDeltaCall

SpecDelta == InitDelta /\ [][NextDelta]_vars

-----------------------------------------------------------------------------
(* C21 *)

\* A list of routes as the map from prefix (label) to next-hops
RouteMap(routes) ==
  [k \in RouteKeys(routes) |->
     (CHOOSE j \in 1..Len(routes) : RouteKey(routes[j]) = k)]

NextHopsOf(routes, k) == routes[RouteMap(routes)[k]].nextHops

\* The map of routes after the listed keys are deleted and the listed routes
\* are updated
ApplyDelta(routes, toUpdate, toDelete) ==
  [k \in (RouteKeys(routes) \ toDelete) \cup RouteKeys(toUpdate) |->
     IF k \in RouteKeys(toUpdate) THEN NextHopsOf(toUpdate, k)
     ELSE NextHopsOf(routes, k)]

\* The delta of new against old is exact for one kind of routes
ExactDelta(new, old, toUpdate, toDelete) ==
  /\ ApplyDelta(old, toUpdate, toDelete) = [k \in RouteKeys(new) |-> NextHopsOf(new, k)]
  /\ \A j \in 1..Len(toUpdate) :
       \/ RouteKey(toUpdate[j]) \notin RouteKeys(old)
       \/ NextHopsOf(old, RouteKey(toUpdate[j])) # toUpdate[j].nextHops
  /\ \A k \in toDelete : k \in RouteKeys(old) /\ k \notin RouteKeys(new)
  /\ new = old => toUpdate = <<>> /\ toDelete = {}

\* C21: applying the delta findDeltaRoutes(new, old) to old yields exactly
\* new; a route is listed as updated only if it is absent from old or its
\* next-hops differ, a prefix or label is listed as deleted only if it is in
\* old and not in new, and the delta of a database against itself is empty.
C21_DeltaIsExact ==
  lastOp.op = "findDeltaRoutes" =>
    /\ ExactDelta(args[1].unicastRoutes, args[2].unicastRoutes,
                  ret.unicastRoutesToUpdate, ret.unicastRoutesToDelete)
    /\ ExactDelta(args[1].mplsRoutes, args[2].mplsRoutes,
                  ret.mplsRoutesToUpdate, ret.mplsRoutesToDelete)

\* Prefix 1 changed its next-hops and prefix 2 was withdrawn: one update, one
\* deletion
C21_Witness ==
  /\ lastOp.op = "findDeltaRoutes"
  /\ args[1].unicastRoutes = <<[dest |-> 1, nextHops |-> <<1, 2>>]>>
  /\ args[2].unicastRoutes = <<[dest |-> 1, nextHops |-> <<1>>], [dest |-> 2, nextHops |-> <<1>>]>>
  /\ ret.unicastRoutesToUpdate = <<[dest |-> 1, nextHops |-> <<1, 2>>]>>
  /\ ret.unicastRoutesToDelete = {2}

-----------------------------------------------------------------------------
(* getPrefixForwardingTypeAndAlgorithm *)

\* thrift::PrefixForwardingType: IP = 0, SR_MPLS = 1
PrefixForwardingTypes == {0, 1}

\* thrift::PrefixForwardingAlgorithm: SP_ECMP = 0, KSP2_ED_ECMP = 1
PrefixForwardingAlgorithms == {0, 1}

\* NodeAndArea: the originators of a prefix
NodeAndAreas == {<<"node-b", "area1">>, <<"node-c", "area1">>, <<"node-c", "area2">>}

\* PrefixEntries: the entry of each originator of a prefix
PrefixEntriesMaps ==
  UNION {[S -> [forwardingType : PrefixForwardingTypes,
                forwardingAlgorithm : PrefixForwardingAlgorithms]] :
           S \in SUBSET NodeAndAreas}

IntMin(a, b) == IF a < b THEN a ELSE b

\* for (auto& [nodeAndArea, prefixEntry] : prefixEntries), in `order`
RECURSIVE forwardingTypeAndAlgorithmLoop(_, _, _, _, _)
forwardingTypeAndAlgorithmLoop(prefixEntries, bestNodeAreas, order, skipOthers, r) ==
  IF order = <<>> THEN r
  ELSE IF skipOthers /\ Head(order) \notin bestNodeAreas
       THEN forwardingTypeAndAlgorithmLoop(
              prefixEntries, bestNodeAreas, Tail(order), skipOthers, r)
       ELSE forwardingTypeAndAlgorithmLoop(
              prefixEntries, bestNodeAreas, Tail(order), skipOthers,
              <<IntMin(r[1], prefixEntries[Head(order)].forwardingType),
                IntMin(r[2], prefixEntries[Head(order)].forwardingAlgorithm)>>)

\* Variant of getPrefixForwardingTypeAndAlgorithm over the entries of every
\* originator
getPrefixForwardingTypeAndAlgorithmAll(prefixEntries, bestNodeAreas, order) ==
  forwardingTypeAndAlgorithmLoop(prefixEntries, bestNodeAreas, order, FALSE, <<1, 1>>)

\* getPrefixForwardingTypeAndAlgorithm: the lowest forwarding type and the
\* lowest forwarding algorithm of the entries of the best originators,
\* starting from the highest of each
getPrefixForwardingTypeAndAlgorithm(prefixEntries, bestNodeAreas, order) ==
  forwardingTypeAndAlgorithmLoop(prefixEntries, bestNodeAreas, order, TRUE, <<1, 1>>)

InitFwd == InitCalls(PrefixEntriesMaps \X (SUBSET NodeAndAreas))

\* One call getPrefixForwardingTypeAndAlgorithm(prefixEntries, bestNodeAreas)
\* with args = <<prefixEntries, bestNodeAreas>>, the map iterated in `order`
ForwardingCall(order) ==
  Returned("getPrefixForwardingTypeAndAlgorithm",
           getPrefixForwardingTypeAndAlgorithm(args[1], args[2], order))

NextFwd == \E order \in Perms(DOMAIN args[1]) : ForwardingCall(order)

SpecFwd == InitFwd /\ [][NextFwd]_vars

-----------------------------------------------------------------------------
(* C22 *)

\* The entries of the best originators
BestEntries(prefixEntries, bestNodeAreas) ==
  {prefixEntries[k] : k \in (DOMAIN prefixEntries) \cap bestNodeAreas}

\* C22: when a best originator has an entry, the forwarding type returned is
\* the lowest forwarding type, and the forwarding algorithm returned the
\* lowest forwarding algorithm, of the entries of the best originators,
\* whatever the entries of the other originators are.
C22_LowestOfBestOriginators ==
  (lastOp.op = "getPrefixForwardingTypeAndAlgorithm"
     /\ BestEntries(args[1], args[2]) # {}) =>
    LET best == BestEntries(args[1], args[2]) IN
      /\ \E e \in best : e.forwardingType = ret[1]
      /\ \A e \in best : ret[1] <= e.forwardingType
      /\ \E e \in best : e.forwardingAlgorithm = ret[2]
      /\ \A e \in best : ret[2] <= e.forwardingAlgorithm

\* The only best originator asks for SR_MPLS and KSP2_ED_ECMP, another
\* originator for IP and SP_ECMP: SR_MPLS and KSP2_ED_ECMP are returned
C22_Witness ==
  /\ lastOp.op = "getPrefixForwardingTypeAndAlgorithm"
  /\ args[2] = {<<"node-b", "area1">>}
  /\ DOMAIN args[1] = {<<"node-b", "area1">>, <<"node-c", "area1">>}
  /\ args[1][<<"node-b", "area1">>] = [forwardingType |-> 1, forwardingAlgorithm |-> 1]
  /\ args[1][<<"node-c", "area1">>] = [forwardingType |-> 0, forwardingAlgorithm |-> 0]
  /\ ret = <<1, 1>>

-----------------------------------------------------------------------------
(* KvStore: values, hash and the merge of a key *)

\* The characters of a node id
NodeIdChars(id) ==
  CASE id = "node-a" -> <<110, 111, 100, 101, 45, 97>>
    [] id = "node-b" -> <<110, 111, 100, 101, 45, 98>>
    [] id = "node-c" -> <<110, 111, 100, 101, 45, 99>>

\* The characters of the data of a value
DataChars(data) ==
  CASE data = "x" -> <<120>>
    [] data = "y" -> <<121>>

HashModulus == 1048573

RECURSIVE hashCombine(_, _)
hashCombine(seed, chars) ==
  IF chars = <<>> THEN seed
  ELSE hashCombine((seed * 31 + Head(chars)) % HashModulus, Tail(chars))

\* generateHash: a deterministic function of version, originator and data
generateHash(version, originatorId, value) ==
  hashCombine(hashCombine(hashCombine(0, <<version>>), NodeIdChars(originatorId)),
              IF value = <<>> THEN <<>> ELSE DataChars(value[1]))

\* Constants::kTtlInfinity: stands for the sentinel, which no finite ttl equals
kTtlInfinity == Int32Max

\* createThriftValue: the hash is generated when none is given
createThriftValue(version, originatorId, data, ttl, ttlVersion, hash) ==
  [version |-> version,
   originatorId |-> originatorId,
   value |-> data,
   ttl |-> ttl,
   ttlVersion |-> ttlVersion,
   hash |-> IF hash = <<>> THEN generateHash(version, originatorId, data) ELSE hash[1]]

\* createThriftValueWithoutBinaryValue: the value without its data
createThriftValueWithoutBinaryValue(val) ==
  createThriftValue(val.version, val.originatorId, <<>>, val.ttl, val.ttlVersion,
                    <<val.hash>>)

\* The full values a writer makes, with the ttl-version a new value starts at
FullValues(versions, originators, datas, ttls) ==
  {createThriftValue(v, o, <<d>>, t, 0, <<>>) :
     v \in versions, o \in originators, d \in datas, t \in ttls}

\* Variant of mergePrefers that looks at the version alone and takes the
\* incoming value on a tie
mergePrefersLatest(l, r) == r.version >= l.version

\* R is preferred to L: higher version, then higher originator-id, then
\* higher hash
mergePrefers(l, r) ==
  \/ r.version > l.version
  \/ /\ r.version = l.version
     /\ StrLess(NodeIdChars(l.originatorId), NodeIdChars(r.originatorId))
  \/ /\ r.version = l.version
     /\ r.originatorId = l.originatorId
     /\ r.hash > l.hash

\* Variant of ttlRefreshAccepted that takes any ttl-version
ttlRefreshAcceptedAnyTtlVersion(l, r) ==
  /\ r.version = l.version
  /\ r.originatorId = l.originatorId
  /\ r.hash = l.hash

\* A ttl-refresh is accepted on the entry it names, with a higher ttl-version
ttlRefreshAccepted(l, r) ==
  /\ r.version = l.version
  /\ r.originatorId = l.originatorId
  /\ r.hash = l.hash
  /\ r.ttlVersion > l.ttlVersion

\* The merge of an incoming value into the key-values of a store: the
\* key-values after it and the kind of update made ("full", "ttl" or "none")
mergeKeyValue(keyVals, key, incoming) ==
  IF incoming.value # <<>>
  THEN IF key \notin DOMAIN keyVals \/ mergePrefers(keyVals[key], incoming)
       THEN [keyVals |-> MapPut(keyVals, key, incoming), update |-> "full"]
       ELSE [keyVals |-> keyVals, update |-> "none"]
  ELSE IF key \in DOMAIN keyVals /\ ttlRefreshAccepted(keyVals[key], incoming)
       THEN [keyVals |->
               MapPut(keyVals, key,
                      [keyVals[key] EXCEPT !.ttl = incoming.ttl,
                                           !.ttlVersion = incoming.ttlVersion]),
             update |-> "ttl"]
       ELSE [keyVals |-> keyVals, update |-> "none"]

\* The key-values after each of the values is merged in turn
RECURSIVE mergeKeyValues(_, _, _)
mergeKeyValues(keyVals, key, values) ==
  IF values = <<>> THEN <<>>
  ELSE LET merged == mergeKeyValue(keyVals, key, Head(values)).keyVals
       IN <<merged>> \o mergeKeyValues(merged, key, Tail(values))

\* Bound on the number of values delivered to one key
MaxDeliveries == 3

\* The full values delivered to a key
MergedValues == FullValues({1, 2}, {"node-a", "node-b"}, {"x", "y"}, {kTtlInfinity})

InitMerge == InitCalls(UNION {[1..n -> MergedValues] : n \in 1..MaxDeliveries})

\* The values of args written one after the other to a key of an empty store
MergeCall ==
  Returned("mergeKeyValues", mergeKeyValues(EmptyMap, "k1", args))

NextMerge == MergeCall

SpecMerge == InitMerge /\ [][NextMerge]_vars

-----------------------------------------------------------------------------
(* C23 *)

\* l is below r under (version, then originator-id, then hash)
ValueBelow(l, r) ==
  \/ l.version < r.version
  \/ l.version = r.version /\ l.originatorId # r.originatorId
       /\ StrLess(NodeIdChars(l.originatorId), NodeIdChars(r.originatorId))
  \/ l.version = r.version /\ l.originatorId = r.originatorId /\ l.hash < r.hash

\* The values delivered first to j-th
Delivered(values, j) == {values[i] : i \in 1..j}

\* C23: after any sequence of full values is written to a key, in any order
\* and with any repetition, the stored value is the one value of those
\* delivered that none of them is above under (version, originator-id, hash),
\* and a value that is not above the stored one leaves the entry as it was.
C23_MergeOrderIndependent ==
  lastOp.op = "mergeKeyValues" =>
    \A j \in 1..Len(args) :
      LET stored == ret[j]["k1"] IN
        /\ stored \in Delivered(args, j)
        /\ \A v \in Delivered(args, j) : v = stored \/ ValueBelow(v, stored)
        /\ (j > 1 /\ ~ValueBelow(ret[j - 1]["k1"], args[j])) =>
             ret[j] = ret[j - 1]

\* (2, node-a, y) is written first, then (2, node-b, x), then the first again:
\* the second stays
C23_Witness ==
  /\ lastOp.op = "mergeKeyValues"
  /\ Len(args) = 3
  /\ args[1] = createThriftValue(2, "node-a", <<"y">>, kTtlInfinity, 0, <<>>)
  /\ args[2] = createThriftValue(2, "node-b", <<"x">>, kTtlInfinity, 0, <<>>)
  /\ args[3] = args[1]
  /\ ret[3]["k1"] = args[2]
  /\ ret[1]["k1"] = args[1]

-----------------------------------------------------------------------------
(* KvStore: writes, flooding and ttl-refresh *)

\* Bound on the number of ttl-refreshes an originator emits
MaxRefreshes == 1

\* The ttl of the values that expire, in ticks of the clock
FiniteTtl == 4

\* createThriftPublication
createThriftPublication(kv, expiredKeys, nodeIds) ==
  [keyVals |-> kv, expiredKeys |-> expiredKeys, nodeIds |-> nodeIds]

\* The peers of a node in INITIALIZED state: every other node of the area
KvPeers(node) == KvNodes \ {node}

\* The nodes a publication has traversed
TraversedNodes(publication) ==
  {publication.nodeIds[j] : j \in 1..Len(publication.nodeIds)}

\* Variant of updateTtlCountdown that leaves the deadline of a key that has one
updateTtlCountdownOnce(ttlCountdown, key, value) ==
  IF key \in DOMAIN ttlCountdown THEN ttlCountdown
  ELSE IF value.ttl = kTtlInfinity THEN MapErase(ttlCountdown, key)
  ELSE MapPut(ttlCountdown, key, value.ttl)

\* The deadline of a key: ttl from the receipt, none with the infinite ttl
updateTtlCountdown(ttlCountdown, key, value) ==
  IF value.ttl = kTtlInfinity THEN MapErase(ttlCountdown, key)
  ELSE MapPut(ttlCountdown, key, value.ttl)

\* The deadlines after the received values of `updated` are taken
RECURSIVE updateTtlCountdowns(_, _, _)
updateTtlCountdowns(ttlCountdown, keyVals, updated) ==
  IF updated = <<>> THEN ttlCountdown
  ELSE updateTtlCountdowns(
         updateTtlCountdown(ttlCountdown, Head(updated), keyVals[Head(updated)]),
         keyVals, Tail(updated))

\* The merge of the key-values received into a store, key by key: the store
\* after it and the received values that changed it
mergePublication(store, keyVals) ==
  LET merged(k) == mergeKeyValue(store.keyVals, k, keyVals[k])
      updated == {k \in DOMAIN keyVals : merged(k).update # "none"}
  IN [store |->
        [store EXCEPT
           !.keyVals = [k \in (DOMAIN store.keyVals) \cup updated |->
                          IF k \in updated THEN merged(k).keyVals[k]
                          ELSE store.keyVals[k]],
           !.receivedAt = [k \in (DOMAIN @) \cup updated |->
                             IF k \in updated THEN kvClient.now ELSE @[k]],
           !.ttlCountdown = updateTtlCountdowns(@, keyVals, SetToSeq(updated))],
      updated |-> [k \in updated |-> keyVals[k]]]

\* Variant of floodPublication that floods nothing
floodPublicationNone(node, updated, nodeIds, ingress) == {}

\* The publications a node floods for the values that changed its store: one
\* to every peer but the ingress peers, with its id appended to the node ids
floodPublication(node, updated, nodeIds, ingress) ==
  IF DOMAIN updated = {} THEN {}
  ELSE {[src |-> node, dst |-> peer,
         publication |-> createThriftPublication(updated, {}, Append(nodeIds, node))] :
          peer \in KvPeers(node) \ ingress}

\* The variables every run of a KvStore handler sets
KvFinish(op, node, input, outcome) ==
  /\ lastOp' = Op(op, node, NoArg, "")
  /\ args' = input
  /\ ret' = outcome
  /\ stepParity' = 1 - stepParity
  /\ UNCHANGED <<config, adjacencies, peers, state, interfaces, ifIndexToName,
                 adjHoldTimer, advertiseAdjacenciesThrottled,
                 advertiseIfaceAddrThrottled, advertiseIfaceAddrTimer,
                 kvStoreKeys, kvPeerSessions, aborted, emitted, throttledPending,
                 promise, fibers, hostVars, adjDbInKvStore>>

\* What a handler did: whether it dropped the publication, the received
\* values that changed the store, the publications flooded, the expired keys
\* it announced
KvOutcome(dropped, updated, flooded, expiredKeys) ==
  [dropped |-> dropped, updated |-> updated, flooded |-> flooded,
   expiredKeys |-> expiredKeys]

\* A node merges the key-values of a publication and floods those that
\* changed its store
mergeAndFlood(op, node, ingress, publication) ==
  LET merged == mergePublication(kvStore[node], publication.keyVals)
      flooded == floodPublication(node, merged.updated, publication.nodeIds, ingress)
  IN /\ kvStore' = [kvStore EXCEPT ![node] = merged.store]
     /\ kvInFlight' = (kvInFlight \ {[src |-> s, dst |-> node, publication |-> publication] :
                                       s \in ingress}) \cup flooded
     /\ KvFinish(op, node, [src |-> ingress, publication |-> publication],
                 KvOutcome(FALSE, merged.updated, flooded, {}))

\* Variant of processKeyValues that merges a publication it has traversed
processKeyValuesLooped(op, node, ingress, publication) ==
  mergeAndFlood(op, node, ingress, publication)

\* A node takes the key-values of a publication, written by a client
\* (ingress = {}) or received from the peer of `ingress`: dropped if the node
\* is among the node ids, else merged and flooded for the keys that changed
processKeyValues(op, node, ingress, publication) ==
  IF node \in TraversedNodes(publication)
  THEN /\ kvInFlight' = kvInFlight \ {[src |-> s, dst |-> node, publication |-> publication] :
                                        s \in ingress}
       /\ UNCHANGED kvStore
       /\ KvFinish(op, node, [src |-> ingress, publication |-> publication],
                   KvOutcome(TRUE, EmptyMap, {}, {}))
  ELSE mergeAndFlood(op, node, ingress, publication)

\* setKey(area, key, value) at a node, by a client that writes a value once
SetKey(node, key, value) ==
  /\ value \notin kvClient.written
  /\ kvClient' = [kvClient EXCEPT !.written = @ \cup {value}]
  /\ processKeyValues("setKey", node, {},
                      createThriftPublication([k \in {key} |-> value], {}, <<>>))

\* A node receives a publication a peer flooded to it
ProcessPublication(message) ==
  /\ message \in kvInFlight
  /\ UNCHANGED kvClient
  /\ processKeyValues("processPublication", message.dst, {message.src},
                      message.publication)

\* The ttl-refresh of a stored value: no data, the next ttl-version
ttlRefreshOf(value) ==
  createThriftValueWithoutBinaryValue([value EXCEPT !.ttlVersion = @ + 1])

\* The originator of a key with a finite ttl refreshes it at its own store
RefreshTtl(node, key) ==
  /\ ~kvClient.stopped
  /\ kvClient.refreshes < MaxRefreshes
  /\ key \in DOMAIN kvStore[node].keyVals
  /\ kvStore[node].keyVals[key].originatorId = node
  /\ kvStore[node].keyVals[key].ttl # kTtlInfinity
  /\ kvClient' = [kvClient EXCEPT !.refreshes = @ + 1]
  /\ processKeyValues("refreshTtl", node, {},
                      createThriftPublication(
                        [k \in {key} |-> ttlRefreshOf(kvStore[node].keyVals[key])],
                        {}, <<>>))

\* Some publication in flight is received
Deliver == \E message \in kvInFlight : ProcessPublication(message)

\* LinkMonitor as constructed and the KvStores of the area, all empty
InitKv == InitWith(Configs({FALSE}))

\* The full values written, each at the store of its originator
KvWrites == FullValues({1, 2}, {"node-a"}, {"x"}, {FiniteTtl})

NextKv ==
  \/ \E key \in KvKeys, value \in KvWrites : SetKey(value.originatorId, key, value)
  \/ \E message \in kvInFlight : ProcessPublication(message)
  \/ \E node \in KvNodes, key \in KvKeys : RefreshTtl(node, key)

SpecKv == InitKv /\ [][NextKv]_vars

-----------------------------------------------------------------------------
(* C25 *)

\* The node ids of a publication name no node twice
SimplePath(nodeIds) ==
  \A i, j \in 1..Len(nodeIds) : nodeIds[i] = nodeIds[j] => i = j

\* C25: a node that receives a publication whose node ids hold its own id
\* changes nothing in its store and floods nothing; a publication a node
\* floods on receipt carries the node ids received with the node's id
\* appended and does not go to the peer it came from; and the node ids of a
\* publication in flight never name a node twice.
C25_FloodLoopFree ==
  /\ [](\A m \in kvInFlight :
          /\ SimplePath(m.publication.nodeIds)
          /\ m.publication.nodeIds # <<>>
          /\ m.publication.nodeIds[Len(m.publication.nodeIds)] = m.src)
  /\ [][HandlerRan({"processPublication"}) =>
          LET node == lastOp'.node
              publication == args'.publication
          IN /\ node \in TraversedNodes(publication) =>
                  /\ kvStore' = kvStore
                  /\ kvInFlight' \subseteq kvInFlight
                  /\ ret'.dropped
             /\ \A m \in kvInFlight' \ kvInFlight :
                  /\ m.src = node
                  /\ m.publication.nodeIds = Append(publication.nodeIds, node)
                  /\ m.dst \notin args'.src]_vars

\* node-a receives its own write back after node-b and node-c flooded it,
\* and drops it
C25_Witness ==
  /\ lastOp.op = "processPublication"
  /\ lastOp.node = "node-a"
  /\ args.publication.nodeIds = <<"node-a", "node-b", "node-c">>
  /\ ret.dropped
  /\ ret.flooded = {}

-----------------------------------------------------------------------------
(* C26 *)

\* l and r agree in version, originator-id and hash
SameEntry(l, r) ==
  /\ l.version = r.version
  /\ l.originatorId = r.originatorId
  /\ l.hash = r.hash

\* A node has taken a ttl-refresh of key k, written or received: it is
\* accepted exactly when the key is stored with the same version,
\* originator-id and hash and a lower ttl-version; accepted, it changes the
\* ttl, the ttl-version and the deadline of the entry and nothing else; not
\* accepted, it leaves the key-values as they were
TtlRefreshHandled ==
  HandlerRan({"setKey", "refreshTtl", "processPublication"}) =>
    \A k \in DOMAIN args'.publication.keyVals :
      LET r == args'.publication.keyVals[k]
          before == kvStore[lastOp'.node]
          after == kvStore'[lastOp'.node]
          accepted == k \in DOMAIN ret'.updated
      IN r.value = <<>> =>
           /\ accepted <=> /\ k \in DOMAIN before.keyVals
                           /\ SameEntry(before.keyVals[k], r)
                           /\ r.ttlVersion > before.keyVals[k].ttlVersion
           /\ accepted =>
                /\ after.keyVals[k] = [before.keyVals[k] EXCEPT !.ttl = r.ttl,
                                                                !.ttlVersion = r.ttlVersion]
                /\ after.ttlCountdown[k] = r.ttl
                /\ after.keyVals[k].value # <<>>
           /\ ~accepted => after = before

\* The stored ttl-version of the keys of every node that stay does not
\* decrease in a step; `sameEntryOnly` restricts this to the keys whose
\* entry keeps its version, originator-id and hash
TtlVersionKept(sameEntryOnly) ==
  \A n \in KvNodes :
    \A k \in (DOMAIN kvStore[n].keyVals) \cap (DOMAIN kvStore'[n].keyVals) :
      (sameEntryOnly => SameEntry(kvStore[n].keyVals[k], kvStore'[n].keyVals[k])) =>
        kvStore'[n].keyVals[k].ttlVersion >= kvStore[n].keyVals[k].ttlVersion

\* C26 as amended: a ttl-refresh is accepted if and only if version,
\* originator-id and hash equal the stored entry's and its ttl-version is
\* strictly higher; accepted, it changes only ttl, ttl-version and deadline;
\* it never creates a key; and the stored ttl-version of a key never
\* decreases as long as the entry keeps its version, originator-id and hash.
C26_TtlRefresh == [][TtlRefreshHandled /\ TtlVersionKept(TRUE)]_vars

\* C26 as stated: the same, with a stored ttl-version that never decreases
\* at all.
C26_AsStated == [][TtlRefreshHandled /\ TtlVersionKept(FALSE)]_vars

\* node-b has accepted the ttl-refresh that node-a flooded: ttl-version 1 on
\* the entry of version 1
C26_Witness ==
  /\ lastOp.op = "processPublication"
  /\ lastOp.node = "node-b"
  /\ "k1" \in DOMAIN ret.updated
  /\ ret.updated["k1"].value = <<>>
  /\ kvStore["node-b"].keyVals["k1"].ttlVersion = 1
  /\ kvStore["node-b"].keyVals["k1"].value = <<"x">>
  /\ kvStore["node-b"].keyVals["k1"].originatorId = "node-a"

-----------------------------------------------------------------------------
(* KvStore: the clock and ttl expiry *)

\* The countdown of every key with a deadline, one tick later
TickCountdown(store) ==
  [store EXCEPT !.ttlCountdown = [k \in DOMAIN @ |-> @[k] - 1]]

\* The refresh of a key is due at its originator: 3/4 of the ttl has passed
RefreshDue(node, key) ==
  /\ key \in DOMAIN kvStore[node].ttlCountdown
  /\ kvStore[node].keyVals[key].originatorId = node
  /\ kvStore[node].ttlCountdown[key]
       <= kvStore[node].keyVals[key].ttl - (3 * kvStore[node].keyVals[key].ttl) \div 4

\* One tick of the clock.  A tick is long against the delivery of a
\* publication, and a timer that is due fires before the next tick: the
\* expiry timer of a store at a deadline, the refresh timer of an originator
\* that has not stopped
Tick ==
  /\ kvInFlight = {}
  /\ \E n \in KvNodes : DOMAIN kvStore[n].ttlCountdown # {}
  /\ \A n \in KvNodes : \A k \in DOMAIN kvStore[n].ttlCountdown :
       /\ kvStore[n].ttlCountdown[k] > 0
       /\ kvClient.stopped \/ ~RefreshDue(n, k)
  /\ kvStore' = [n \in KvNodes |-> TickCountdown(kvStore[n])]
  /\ kvClient' = [kvClient EXCEPT !.now = @ + 1]
  /\ UNCHANGED kvInFlight
  /\ KvFinish("tick", "", <<>>, KvOutcome(FALSE, EmptyMap, {}, {}))

\* The keys of a store whose deadline has come
ExpiredKeys(store) == {k \in DOMAIN store.ttlCountdown : store.ttlCountdown[k] <= 0}

\* The store after the expiry timer fired: the expired keys are removed
cleanupTtlCountdown(store) ==
  [store EXCEPT
     !.keyVals = [k \in (DOMAIN @) \ ExpiredKeys(store) |-> @[k]],
     !.receivedAt = [k \in (DOMAIN @) \ ExpiredKeys(store) |-> @[k]],
     !.ttlCountdown = [k \in (DOMAIN @) \ ExpiredKeys(store) |-> @[k]],
     !.counters.expired_key_vals = @ + Cardinality(ExpiredKeys(store))]

\* The expiry timer of a node fires at a deadline: the expired keys are
\* removed and announced in the expired keys of one publication
ExpireKeys(node) ==
  /\ ExpiredKeys(kvStore[node]) # {}
  /\ kvStore' = [kvStore EXCEPT ![node] = cleanupTtlCountdown(@)]
  /\ UNCHANGED <<kvInFlight, kvClient>>
  /\ KvFinish("cleanupTtlCountdown", node, <<>>,
              KvOutcome(FALSE, EmptyMap, {}, ExpiredKeys(kvStore[node])))

\* The originator stops refreshing its keys
StopRefresh ==
  /\ ~kvClient.stopped
  /\ kvClient' = [kvClient EXCEPT !.stopped = TRUE]
  /\ UNCHANGED <<kvStore, kvInFlight>>
  /\ KvFinish("stopRefresh", "", <<>>, KvOutcome(FALSE, EmptyMap, {}, {}))

\* The one value written: with a finite ttl or with the infinite ttl
TtlWrites == FullValues({1}, {"node-a"}, {"x"}, {FiniteTtl, kTtlInfinity})

\* The originator writes its key, once
WriteKey ==
  \E key \in KvKeys, value \in TtlWrites :
    /\ kvClient.written = {}
    /\ SetKey(value.originatorId, key, value)

\* The refresh timer of an originator fires
RefreshWhenDue ==
  \E node \in KvNodes, key \in KvKeys :
    /\ RefreshDue(node, key)
    /\ RefreshTtl(node, key)

\* The expiry timer of some node fires
Expire == \E node \in KvNodes : ExpireKeys(node)

NextTtl == WriteKey \/ RefreshWhenDue \/ StopRefresh \/ Deliver \/ Tick \/ Expire

\* Publications are delivered, time passes and timers that are due fire
SpecTtl ==
  /\ InitKv
  /\ [][NextTtl]_vars
  /\ WF_vars(Deliver)
  /\ WF_vars(Tick)
  /\ WF_vars(Expire)

-----------------------------------------------------------------------------
(* C27 *)

\* A value with a finite ttl has been written
FiniteTtlWritten == \E v \in kvClient.written : v.ttl # kTtlInfinity

\* Every node has removed key k and has announced one expired key
ExpiredEverywhere(k) ==
  \A n \in KvNodes :
    /\ k \notin DOMAIN kvStore[n].keyVals
    /\ kvStore[n].counters.expired_key_vals = 1

\* C27: once the originator has stopped refreshing a key written with a
\* finite ttl, every node ends up without the key, having announced it in
\* the expired keys of exactly one publication; a node expires a key only at
\* its deadline, receipt time + ttl, never a key with the infinite ttl, and
\* never while the originator keeps refreshing.
C27_TtlExpiry ==
  /\ (kvClient.stopped /\ FiniteTtlWritten) ~> ExpiredEverywhere("k1")
  /\ [](\A n \in KvNodes : kvStore[n].counters.expired_key_vals <= 1)
  /\ [][HandlerRan({"cleanupTtlCountdown"}) =>
          /\ ret'.expiredKeys # {}
          /\ \A k \in ret'.expiredKeys :
               LET before == kvStore[lastOp'.node] IN
                 /\ before.keyVals[k].ttl # kTtlInfinity
                 /\ kvClient.now = before.receivedAt[k] + before.keyVals[k].ttl
                 /\ k \notin DOMAIN kvStore'[lastOp'.node].keyVals
                 /\ kvClient.stopped]_vars
  /\ [][\A n \in KvNodes : \A k \in DOMAIN kvStore[n].keyVals :
          (kvStore[n].keyVals[k].ttl = kTtlInfinity \/ ~kvClient'.stopped) =>
            k \in DOMAIN kvStore'[n].keyVals]_vars

\* The key was written at time 0 and refreshed once at time 3; after the
\* originator stopped, every node expired it at time 7
C27_Witness ==
  /\ ExpiredEverywhere("k1")
  /\ kvClient.refreshes = 1
  /\ kvClient.stopped
  /\ kvClient.now = 7

-----------------------------------------------------------------------------
(* KvStore: convergence under fair delivery *)

\* The full values written while the stores converge: node-a and node-b
\* write the same version, node-a a higher one as well; none expires
ConvergeWrites ==
  FullValues({1, 2}, {"node-a"}, {"x"}, {kTtlInfinity})
    \cup FullValues({1}, {"node-b"}, {"y"}, {kTtlInfinity})

ClientWrites ==
  \E key \in KvKeys, value \in ConvergeWrites : SetKey(value.originatorId, key, value)

NextConverge == ClientWrites \/ Deliver

\* Every publication flooded to a connected peer is delivered in the end
SpecConverge == InitKv /\ [][NextConverge]_vars /\ WF_vars(Deliver)

-----------------------------------------------------------------------------
(* C24 *)

\* Every two nodes hold the same value for every key
Converged ==
  \A n, m \in KvNodes : kvStore[n].keyVals = kvStore[m].keyVals

\* No publication is in flight
Quiescent == kvInFlight = {}

-----------------------------------------------------------------------------
(* LinkMonitor: the event fibers *)

\* Bound on the number of events published to a queue
MaxPublished == 2

\* thrift::SparkNeighborEvent values published by Spark
NeighborEvents ==
  {[eventType |-> t, node |-> "node-b", iface |-> Eth2, area |-> "area1",
    addr |-> "fe80::1", rtt |-> SmallRtt] :
     t \in {"NEIGHBOR_UP", "NEIGHBOR_RESTARTING", "NEIGHBOR_DOWN"}}

\* fbnl::NetlinkEvent values published by the platform: Link or IfAddress
NetlinkEvents ==
  {[eventType |-> "Link", ifName |-> Eth2, ifIndex |-> Eth2Index, isUp |-> isUp,
    prefix |-> GlobalNet, isValid |-> TRUE] : isUp \in BOOLEAN}
  \cup {[eventType |-> "IfAddress", ifName |-> Eth2, ifIndex |-> Eth2Index, isUp |-> TRUE,
         prefix |-> GlobalNet, isValid |-> TRUE]}

\* processNeighborEvent: the handler of the type of the event
processNeighborEvent(event) ==
  CASE event.eventType \in NeighborUpTypes ->
         NeighborUp(event.eventType, event.node, event.iface, event.area,
                    event.addr, event.rtt)
    [] event.eventType = "NEIGHBOR_RESTARTING" ->
         NeighborRestarting(event.node, event.iface, event.area)
    [] event.eventType = "NEIGHBOR_DOWN" ->
         NeighborDown(event.node, event.iface, event.area)
    [] event.eventType = "NEIGHBOR_RTT_CHANGE" ->
         NeighborRttChange(event.node, event.iface, event.area, event.rtt)

\* processNetlinkEvent: the handler of the alternative the event holds
processNetlinkEvent(event) ==
  IF event.eventType = "Link"
  THEN LinkEvent(event.ifName, event.ifIndex, event.isUp)
  ELSE AddrEvent(event.ifIndex, event.prefix, event.isValid)

\* The variables of LinkMonitor and of the KvStores, which the queues' writers
\* and the end of a fiber leave alone
UnchangedByQueue ==
  UNCHANGED <<config, adjacencies, peers, state, interfaces, ifIndexToName,
              adjHoldTimer, advertiseAdjacenciesThrottled,
              advertiseIfaceAddrThrottled, advertiseIfaceAddrTimer,
              kvStoreKeys, kvPeerSessions, aborted, lastOp, emitted,
              throttledPending, ret, stepParity, promise, args, kvVars,
              hostVars, adjDbInKvStore>>

\* The writer of queue `name` pushes an event; a closed queue takes none
Publish(name, event) ==
  /\ ~fibers[name].q.closed
  /\ Len(fibers[name].q.published) < MaxPublished
  /\ fibers' = [fibers EXCEPT ![name].q.pending = Append(@, event),
                              ![name].q.published = Append(@, event)]
  /\ UnchangedByQueue

\* The queue `name` is closed
CloseQueue(name) ==
  /\ ~fibers[name].q.closed
  /\ fibers' = [fibers EXCEPT ![name].q.closed = TRUE]
  /\ UnchangedByQueue

\* Variant of fiberOnError in which the loop goes on after the error
fiberOnErrorContinue(fiber) == fiber

\* maybeEvent.hasError(): the loop of the fiber breaks
fiberOnError(fiber) == [fiber EXCEPT !.terminated = TRUE]

\* q.get() gives the fiber `name` the next event, which is processed
FiberProcess(name) ==
  /\ ~fibers[name].terminated
  /\ fibers[name].q.pending # <<>>
  /\ IF name = "neighbor"
     THEN processNeighborEvent(Head(fibers[name].q.pending))
     ELSE processNetlinkEvent(Head(fibers[name].q.pending))

\* q.get() gives the fiber `name` the error of the closed queue that holds
\* no more events
FiberEnd(name) ==
  /\ ~fibers[name].terminated
  /\ fibers[name].q.pending = <<>>
  /\ fibers[name].q.closed
  /\ fibers' = [fibers EXCEPT ![name] = fiberOnError(@)]
  /\ UnchangedByQueue

\* One turn of the loop of fiber `name`
FiberLoop(name) == FiberProcess(name) \/ FiberEnd(name)

InitFiber == InitWith(Configs({FALSE}))

NextFiber ==
  \/ \E event \in NeighborEvents : Publish("neighbor", event)
  \/ \E event \in NetlinkEvents : Publish("netlink", event)
  \/ \E name \in {"neighbor", "netlink"} : CloseQueue(name)
  \/ FiberLoop("neighbor")
  \/ FiberLoop("netlink")

\* A fiber whose q.get() has the error of the closed queue is resumed
SpecFiber ==
  /\ InitFiber
  /\ [][NextFiber]_vars
  /\ WF_vars(FiberEnd("neighbor"))
  /\ WF_vars(FiberEnd("netlink"))

-----------------------------------------------------------------------------
(* C28 *)

\* The handler run that processes an event
EventOp(event) ==
  CASE event.eventType = "Link" ->
         OpArg("Link", "", event.ifName, "", <<event.ifIndex, event.isUp>>)
    [] event.eventType = "IfAddress" ->
         OpArg("IfAddress", "", NoArg, "", <<event.ifIndex, event.prefix, event.isValid>>)
    [] OTHER -> Op(event.eventType, event.node, event.iface, event.area)

EventHandlers ==
  {"NEIGHBOR_UP", "NEIGHBOR_RESTARTED", "NEIGHBOR_RESTARTING", "NEIGHBOR_DOWN",
   "NEIGHBOR_RTT_CHANGE", "Link", "IfAddress"}

\* C28: a fiber whose queue is closed and holds no more events does not stay
\* unterminated, and a fiber terminates only then; once it has terminated
\* none of its events is processed;
\* the events processed are at every moment the first of the events
\* published, in their order, each handler run taking the next one.
C28_QueueCloseEndsFiber ==
  /\ []<>(\A name \in {"neighbor", "netlink"} :
            (fibers[name].q.closed /\ fibers[name].q.pending = <<>>) =>
              fibers[name].terminated)
  /\ [](\A name \in {"neighbor", "netlink"} :
          /\ fibers[name].terminated =>
               fibers[name].q.closed /\ fibers[name].q.pending = <<>>
          /\ Len(fibers[name].q.processed) <= Len(fibers[name].q.published)
          /\ \A j \in 1..Len(fibers[name].q.processed) :
               fibers[name].q.processed[j] = EventOp(fibers[name].q.published[j]))
  /\ [][/\ HandlerRan(EventHandlers) =>
             /\ ~fibers[FiberOf(lastOp'.op)].terminated
             /\ fibers'[FiberOf(lastOp'.op)].q.processed
                  = Append(fibers[FiberOf(lastOp'.op)].q.processed, lastOp')
        /\ \A name \in {"neighbor", "netlink"} :
             fibers[name].terminated =>
               /\ fibers'[name].terminated
               /\ fibers'[name].q.processed = fibers[name].q.processed]_vars

\* NEIGHBOR_UP and NEIGHBOR_DOWN were published and processed in that order,
\* the queue was closed and the neighbor fiber has terminated
C28_Witness ==
  /\ fibers["neighbor"].terminated
  /\ Len(fibers["neighbor"].q.processed) = 2
  /\ fibers["neighbor"].q.processed[1].op = "NEIGHBOR_UP"
  /\ fibers["neighbor"].q.processed[2].op = "NEIGHBOR_DOWN"
  /\ lastOp.op = "NEIGHBOR_DOWN"

-----------------------------------------------------------------------------
(* C29 *)

\* C29: a setNodeOverload, setInterfaceOverload, setLinkMetric or
\* setAdjacencyMetric that changed state_ has written the adjacency database of
\* every area, built from the new state, by the time it fulfils its caller's
\* promise.
C29_AdvertisedOnCompletion ==
  [][(CommandChangedState /\ promise' = "setValue") => WritesEveryArea]_vars

-----------------------------------------------------------------------------
(* The adjacency database as written: node-b over eth2 in area2, node-c over *)
(* eth10 in area1, with and without segment routing, after a run that stored *)
(* a node label and an overloaded link                                       *)

AdjDbStoredStates ==
  {st \in StoredStates :
     /\ ~st.isOverloaded
     /\ st.nodeLabel = 101
     /\ st.overloadedLinks = {Eth2}
     /\ st.linkMetricOverrides = EmptyMap
     /\ st.adjMetricOverrides = EmptyMap}

AdjDbConfigs ==
  [nodeId : {"node-a"}, useRttMetric : {FALSE}, enableSegmentRouting : BOOLEAN,
   assumeDrained : {FALSE}, overrideDrainState : {FALSE},
   storedState : {<<>>} \cup {<<st>> : st \in AdjDbStoredStates}]

InitAdjDb == InitLoadFrom(AdjDbConfigs)

NextAdjDb ==
  \/ NeighborUp("NEIGHBOR_UP", "node-b", Eth2, "area2", "fe80::1", SmallRtt)
  \/ NeighborUp("NEIGHBOR_UP", "node-c", Eth10, "area1", "fe80::1", SmallRtt)
  \/ NeighborRestarting("node-c", Eth10, "area1")
  \/ NeighborDown("node-b", Eth2, "area2")
  \/ LinkEvent(Eth2, 2, TRUE)
  \/ \E isOverloaded \in BOOLEAN : SetNodeOverload(isOverloaded)
  \/ \E isOverloaded \in BOOLEAN : SetInterfaceOverload(Eth2, isOverloaded)
  \/ AdjHoldTimerExpired
  \/ AdjThrottleFired
  \/ IfaceThrottleFired

SpecAdjDb == InitAdjDb /\ [][NextAdjDb]_vars

-----------------------------------------------------------------------------
(* C30 *)

\* The tracked adjacencies of an area
TrackedIn(area) == {k \in DOMAIN adjacencies : adjacencies[k].area = area}

\* C30: every adjacency database a step wrote for an area names the local node
\* and that area, carries the node overload flag of state_, the node label of
\* state_ with segment routing enabled and 0 without, and holds exactly one
\* adjacency per tracked adjacency of that area, restarting ones included and
\* those of other areas not, each overloaded iff its interface is among the
\* overloaded links.
C30_AdjacencyDatabase ==
  \A area \in DOMAIN emitted.persistKey :
    LET adjDb == emitted.persistKey[area]
    IN /\ adjDb.thisNodeName = config.nodeId
       /\ adjDb.area = area
       /\ adjDb.isOverloaded = state.isOverloaded
       /\ adjDb.nodeLabel =
            IF config.enableSegmentRouting THEN state.nodeLabel ELSE 0
       /\ {<<adj.otherNodeName, adj.ifName>> : adj \in adjDb.adjacencies}
            = TrackedIn(area)
       /\ Cardinality(adjDb.adjacencies) = Cardinality(TrackedIn(area))
       /\ \A adj \in adjDb.adjacencies :
            adj.isOverloaded <=> adj.ifName \in state.overloadedLinks

\* Without segment routing and with label 101 stored, the throttle wrote both
\* areas: label 0, node-c restarting but listed in area1 only, node-b listed in
\* area2 only and overloaded as eth2 is an overloaded link
C30_Witness ==
  /\ lastOp.op = "advertiseAdjacenciesThrottled"
  /\ ~config.enableSegmentRouting
  /\ state.nodeLabel = 101
  /\ state.isOverloaded
  /\ DOMAIN emitted.persistKey = Areas
  /\ emitted.persistKey["area1"].nodeLabel = 0
  /\ emitted.persistKey["area1"].isOverloaded
  /\ <<"node-c", Eth10>> \in DOMAIN adjacencies
  /\ adjacencies[<<"node-c", Eth10>>].isRestarting
  /\ \E adj \in emitted.persistKey["area1"].adjacencies :
       adj.otherNodeName = "node-c" /\ ~adj.isOverloaded
  /\ \E adj \in emitted.persistKey["area2"].adjacencies :
       adj.otherNodeName = "node-b" /\ adj.isOverloaded

-----------------------------------------------------------------------------
(* The periodic interface sync: the platform's link and address dumps, with  *)
(* the loopback and eth2                                                     *)

MaxSyncFailures == 3

\* What nlSock_->getAllLinks() and nlSock_->getAllIfAddresses() can give
NlLinks ==
  {[ifName |-> Lo, ifIndex |-> LoIndex, isUp |-> TRUE]}
    \cup [ifName : {Eth2}, ifIndex : {Eth2Index}, isUp : BOOLEAN]

NlAddrs ==
  {[ifIndex |-> LoIndex, prefix |-> GlobalNet],
   [ifIndex |-> Eth2Index, prefix |-> GlobalNet]}

\* One answer of the platform: each dump is an error or a list, and a dump of
\* links names an index once
PlatformAnswers ==
  {a \in [linksError : BOOLEAN, addrsError : BOOLEAN,
          links : SUBSET NlLinks, addrs : SUBSET NlAddrs] :
     /\ \A l1, l2 \in a.links : l1.ifIndex = l2.ifIndex => l1 = l2
     /\ (a.linksError \/ a.addrsError) => (a.links = {} /\ a.addrs = {})
     /\ ~(a.linksError /\ a.addrsError)}

\* Variant of getAllLinks() that skips an address whose index has no link
getAllLinksSkipUnknown(answer) ==
  [threw |-> answer.linksError \/ answer.addrsError,
   links |->
     {[ifName |-> l.ifName, ifIndex |-> l.ifIndex, isUp |-> l.isUp,
       networks |-> {a.prefix : a \in {x \in answer.addrs : x.ifIndex = l.ifIndex}}]
        : l \in answer.links}]

\* getAllLinks(): one LinkEntry per link of the dump, with the networks of the
\* addresses of its index; an NlException for a failed dump, and
\* std::out_of_range from links.at() for an address whose index has no link
getAllLinks(answer) ==
  [threw |-> \/ answer.linksError
             \/ answer.addrsError
             \/ \E a \in answer.addrs :
                  a.ifIndex \notin {l.ifIndex : l \in answer.links},
   links |->
     {[ifName |-> l.ifName, ifIndex |-> l.ifIndex, isUp |-> l.isUp,
       networks |-> {a.prefix : a \in {x \in answer.addrs : x.ifIndex = l.ifIndex}}]
        : l \in answer.links}]

\* The body of the loop of syncInterfaces() for one link: t holds interfaces_,
\* ifIndexToName_ and what the entries asked of the throttle and the timer
syncLink(t, link) ==
  LET got == getOrCreateInterfaceEntry(t.interfaces, link.ifName)
      u == updateAttrs(got.entry, link.ifIndex, link.isUp)
      entry == [u.entry EXCEPT !.networks = link.networks]
      names == MapPut(t.ifIndexToName, link.ifIndex, link.ifName)
  IN IF ~got.found THEN [t EXCEPT !.ifIndexToName = names]
     ELSE [interfaces |-> MapPut(t.interfaces, link.ifName, entry),
           ifIndexToName |-> names,
           throttled |-> t.throttled \/ u.updated \/ link.networks # got.entry.networks,
           timer |-> t.timer \/ u.wentDown]

RECURSIVE syncLinks(_, _)
syncLinks(t, links) ==
  IF links = <<>> THEN t ELSE syncLinks(syncLink(t, Head(links)), Tail(links))

\* syncInterfaces(): false when getAllLinks() threw, with nothing changed
syncInterfaces(t, answer) ==
  LET got == getAllLinks(answer)
  IN IF got.threw THEN [success |-> FALSE, table |-> t]
     ELSE [success |-> TRUE, table |-> syncLinks(t, SetToSeq(got.links))]

\* ExponentialBackoff: reportError doubles the backoff from the initial one up
\* to the maximum, reportSuccess clears it, and right after an error the time
\* remaining until the retry is the whole backoff
reportError(currentBackoff) ==
  IF currentBackoff = 0 THEN kInitialBackoff
  ELSE IF 2 * currentBackoff > kMaxBackoff THEN kMaxBackoff ELSE 2 * currentBackoff

reportSuccess(currentBackoff) == 0

getTimeRemainingUntilRetry(currentBackoff) == currentBackoff

\* Variant of the failed sync's rescheduling that backs off the first sync too
syncFailedAlwaysBackoff(sync, noIndexKnown) ==
  [sync EXCEPT !.currentBackoff = reportError(sync.currentBackoff),
               !.timer = <<getTimeRemainingUntilRetry(reportError(sync.currentBackoff))>>]

\* The callback of interfaceDbSyncTimer_ after a failed sync
syncFailed(sync, noIndexKnown) ==
  IF noIndexKnown THEN [sync EXCEPT !.timer = <<0>>]
  ELSE [sync EXCEPT !.currentBackoff = reportError(sync.currentBackoff),
                    !.timer = <<getTimeRemainingUntilRetry(reportError(sync.currentBackoff))>>]

\* The callback of interfaceDbSyncTimer_ after a successful sync
syncSucceeded(sync) ==
  [sync EXCEPT !.currentBackoff = reportSuccess(sync.currentBackoff),
               !.timer = <<kPlatformSyncInterval>>]

\* interfaceDbSyncTimer_ fires and the platform gives `answer`
InterfaceDbSyncTimerFired(answer) ==
  LET t == [interfaces |-> interfaces, ifIndexToName |-> ifIndexToName,
            throttled |-> advertiseIfaceAddrThrottled,
            timer |-> advertiseIfaceAddrTimer]
      synced == syncInterfaces(t, answer)
      fired == [interfaceDbSync EXCEPT !.timer = <<>>]
  IN /\ ~aborted
     /\ interfaceDbSync.timer # <<>>
     /\ ~synced.success => interfaceDbSync.failed < MaxSyncFailures
     /\ interfaces' = synced.table.interfaces
     /\ ifIndexToName' = synced.table.ifIndexToName
     /\ advertiseIfaceAddrThrottled' = synced.table.throttled
     /\ advertiseIfaceAddrTimer' = synced.table.timer
     /\ interfaceDbSync' =
          IF synced.success
          THEN [syncSucceeded(fired) EXCEPT !.synced = TRUE]
          ELSE [syncFailed(fired, DOMAIN synced.table.ifIndexToName = {})
                  EXCEPT !.synced = FALSE, !.failed = @ + 1]
     /\ lastOp' = Op("interfaceDbSyncTimer", "", NoArg, "")
     /\ args' = answer
     /\ ret' = [success |-> synced.success]
     /\ stepParity' = 1 - stepParity
     /\ promise' = promiseFulfilled("interfaceDbSyncTimer")
     /\ emitted' = Emitted(NoPeerUpdate, Effect(advertiseAdjacenciesThrottled),
                           <<>>, <<>>, 0)
     /\ UNCHANGED <<config, adjacencies, peers, state, adjHoldTimer,
                    advertiseAdjacenciesThrottled, kvStoreKeys, kvPeerSessions,
                    aborted, throttledPending, kvVars, fibers, rpc, platformAgent,
                    adjDbInKvStore>>

SyncTimerFired == \E answer \in PlatformAnswers : InterfaceDbSyncTimerFired(answer)

InitSync == InitWith(Configs({FALSE}))

NextSync ==
  \/ SyncTimerFired
  \/ IfaceThrottleFired

\* The event base runs an expired timer's callback
SpecSync == InitSync /\ [][NextSync]_vars /\ WF_vars(SyncTimerFired)

-----------------------------------------------------------------------------
(* C31 *)

\* The sync ran in this step
SyncRan == HandlerRan({"interfaceDbSyncTimer"})

\* C31: every run of the sync leaves the timer scheduled: after a success with
\* the backoff cleared and the platform sync interval as delay; after a failure
\* with no interface index known, with delay 0 and the backoff untouched; after
\* any other failure with the error reported to the backoff and the backoff as
\* delay.  The timer is scheduled whenever no callback runs, and once the
\* platform stops failing a sync succeeds.
C31_SyncRescheduled ==
  /\ [](interfaceDbSync.timer # <<>>)
  /\ [][SyncRan =>
          IF ret'.success
          THEN /\ interfaceDbSync'.currentBackoff = 0
               /\ interfaceDbSync'.timer = <<kPlatformSyncInterval>>
          ELSE IF DOMAIN ifIndexToName = {}
          THEN /\ interfaceDbSync'.currentBackoff = interfaceDbSync.currentBackoff
               /\ interfaceDbSync'.timer = <<0>>
          ELSE /\ interfaceDbSync'.currentBackoff > interfaceDbSync.currentBackoff
                    \/ interfaceDbSync'.currentBackoff = kMaxBackoff
               /\ interfaceDbSync'.currentBackoff
                    \in {kInitialBackoff, 2 * interfaceDbSync.currentBackoff, kMaxBackoff}
               /\ interfaceDbSync'.timer = <<interfaceDbSync'.currentBackoff>>]_vars
  /\ <>(interfaceDbSync.synced)

\* The first sync failed and was retried at once without backoff, the second
\* succeeded, and two later failures doubled the backoff
C31_Witness ==
  /\ lastOp.op = "interfaceDbSyncTimer"
  /\ ~ret.success
  /\ interfaceDbSync.failed = 3
  /\ interfaceDbSync.currentBackoff = 2 * kInitialBackoff
  /\ interfaceDbSync.timer = <<2 * kInitialBackoff>>
  /\ DOMAIN ifIndexToName # {}

-----------------------------------------------------------------------------
(* C32 *)

\* Both dumps of the answer are lists and an address names an index that no
\* link of the dump has
OrphanAddress(answer) ==
  /\ ~answer.linksError
  /\ ~answer.addrsError
  /\ \E a \in answer.addrs : a.ifIndex \notin {l.ifIndex : l \in answer.links}

\* C32: a sync whose address dump holds an address of an index without a link
\* succeeds, and every link of the dump is in the interface table with the
\* state of the dump and the addresses the dump has for its index.
C32_OrphanAddressDropped ==
  [][(SyncRan /\ OrphanAddress(args')) =>
       /\ ret'.success
       /\ \A l \in args'.links :
            /\ l.ifIndex \in DOMAIN ifIndexToName'
            /\ ifIndexToName'[l.ifIndex] = l.ifName
            /\ l.ifName \in DOMAIN interfaces'
            /\ interfaces'[l.ifName].isUp = l.isUp
            /\ interfaces'[l.ifName].networks =
                 {a.prefix : a \in {x \in args'.addrs : x.ifIndex = l.ifIndex}}]_vars

-----------------------------------------------------------------------------
(* C33 *)

\* The override `metric` (NoMetric to unset) is what `overrides` holds for key
MetricInForce(overrides, key, metric) ==
  IF metric = NoMetric THEN key \notin DOMAIN overrides
  ELSE key \in DOMAIN overrides /\ overrides[key] = metric[1]

\* The command `op` asks for the value that st already holds
ValueInForce(st, op) ==
  \/ op.op = "setNodeOverload" /\ op.arg = st.isOverloaded
  \/ op.op = "setInterfaceOverload" /\ (op.arg <=> op.iface \in st.overloadedLinks)
  \/ op.op = "setLinkMetric" /\ MetricInForce(st.linkMetricOverrides, op.iface, op.arg)
  \/ /\ op.op = "setAdjacencyMetric"
     /\ MetricInForce(st.adjMetricOverrides, <<op.node, op.iface>>, op.arg)

\* The interface / adjacency the command `op` names is known
TargetKnown(op) ==
  \/ op.op = "setNodeOverload"
  \/ op.op \in {"setInterfaceOverload", "setLinkMetric"} /\ op.iface \in DOMAIN interfaces
  \/ op.op = "setAdjacencyMetric" /\ <<op.node, op.iface>> \in DOMAIN adjacencies

\* C33: a command that asks for the value already in force fulfils its promise,
\* leaves state_ and the throttle as they are and writes nothing; and right
\* after any command on a known target the value it asked for is in force, so
\* that the same command again is such a no-op.
C33_ReissueIsNoOp ==
  /\ [][(HandlerRan(CommandOps) /\ ValueInForce(state, lastOp')) =>
          /\ state' = state
          /\ promise' = "setValue"
          /\ advertiseAdjacenciesThrottled' = advertiseAdjacenciesThrottled
          /\ throttledPending' = throttledPending
          /\ WritesNoArea
          /\ emitted'.configStore = <<>>
          /\ emitted'.advertiseAdjacenciesRuns = 0
          /\ emitted'.peerUpdatesQueue = <<>>
          /\ adjacencies' = adjacencies
          /\ interfaces' = interfaces
          /\ peers' = peers]_vars
  /\ []((lastOp.op \in CommandOps /\ TargetKnown(lastOp)) => ValueInForce(state, lastOp))

\* After the hold, with the override of eth2 at 5 and the throttle idle,
\* setLinkMetric("eth2", 5) completed: a re-issue, as a change would have armed
\* the throttle
C33_Witness ==
  /\ lastOp = OpArg("setLinkMetric", "", Eth2, "", <<5>>)
  /\ promise = "setValue"
  /\ ~adjHoldTimer
  /\ ~advertiseAdjacenciesThrottled
  /\ Eth2 \in DOMAIN interfaces
  /\ MetricInForce(state.linkMetricOverrides, Eth2, <<5>>)
  /\ emitted.persistKey = EmptyMap

-----------------------------------------------------------------------------
(* RPCs called from a thread other than the event loop's: the call schedules *)
(* a closure with runInEventBaseThread and returns the promise's future      *)

MaxCalls == 1

RpcNames == {"setNodeOverload", "setInterfaceOverload", "setLinkMetric",
             "setAdjacencyMetric", "getInterfaces", "getAdjacencies",
             "getAdjacenciesOfArea"}

\* The calls made, by name
RpcCallOf(name) ==
  IF name = "setNodeOverload" THEN OpArg(name, "", NoArg, "", TRUE)
  ELSE IF name = "setInterfaceOverload" THEN OpArg(name, "", Eth2, "", TRUE)
  ELSE IF name = "setLinkMetric" THEN OpArg(name, "", Eth2, "", <<5>>)
  ELSE IF name = "setAdjacencyMetric" THEN OpArg(name, "node-b", Eth2, "", <<7>>)
  ELSE IF name = "getInterfaces" THEN OpArg(name, "", NoArg, "", NoArg)
  ELSE IF name = "getAdjacencies" THEN OpArg(name, "", NoArg, "", <<>>)
  ELSE OpArg("getAdjacencies", "", NoArg, "", <<"area2">>)

\* Variant of callerAccesses in which the calls log nothing of LinkMonitor
callerAccessesNone(op, vlogIsOn) == {}

\* The members of LinkMonitor an RPC reads before it schedules its closure, on
\* the thread of its caller: the sizes VLOG(2) prints, when VLOG(2) is on
callerAccesses(op, vlogIsOn) ==
  IF vlogIsOn /\ op = "getInterfaces" THEN {"interfaces_"}
  ELSE IF vlogIsOn /\ op = "getAdjacencies" THEN {"adjacencies_"}
  ELSE {}

\* An RPC is called on another thread
RpcCall(call, vlogIsOn) ==
  /\ ~aborted
  /\ Len(rpc.pending) < MaxCalls
  /\ rpc' = [rpc EXCEPT !.pending = Append(@, call),
                        !.accesses = @ \cup {[thread |-> "caller", member |-> m]
                                               : m \in callerAccesses(call.op, vlogIsOn)}]
  /\ UNCHANGED <<config, adjacencies, peers, state, interfaces, ifIndexToName,
                 adjHoldTimer, advertiseAdjacenciesThrottled,
                 advertiseIfaceAddrThrottled, advertiseIfaceAddrTimer,
                 kvStoreKeys, kvPeerSessions, aborted, lastOp, emitted,
                 throttledPending, ret, stepParity, promise, args, kvVars, fibers,
                 interfaceDbSync, platformAgent, adjDbInKvStore>>

\* The closure of getInterfaces: the reply with the known interfaces
GetInterfaces ==
  /\ ~aborted
  /\ ret' = [thisNodeName |-> config.nodeId,
             isOverloaded |-> state.isOverloaded,
             interfaceDetails |->
               [ifName \in DOMAIN interfaces |->
                  [info |-> [isUp |-> isActive(interfaces[ifName]),
                             ifIndex |-> interfaces[ifName].ifIndex,
                             networks |-> interfaces[ifName].networks],
                   isOverloaded |-> ifName \in state.overloadedLinks,
                   metricOverride |->
                     IF ifName \in DOMAIN state.linkMetricOverrides
                     THEN <<state.linkMetricOverrides[ifName]>> ELSE <<>>,
                   inBackoff |-> interfaces[ifName].inBackoff]]]
  /\ Finish(Op("getInterfaces", "", NoArg, ""), NoPeerUpdate,
            Effect(advertiseAdjacenciesThrottled), <<>>, <<>>, 0)
  /\ UNCHANGED <<config, adjacencies, peers, state, interfaces, ifIndexToName,
                 adjHoldTimer, advertiseAdjacenciesThrottled,
                 advertiseIfaceAddrThrottled, advertiseIfaceAddrTimer, aborted,
                 throttledPending>>

\* The closure of getAdjacencies: the database of each selected area, of every
\* area when none is selected
GetAdjacencies(selectAreas) ==
  LET areaSeq == IF selectAreas = <<>> THEN SetToSeq(Areas) ELSE selectAreas
  IN /\ ~aborted
     /\ ret' = [j \in 1..Len(areaSeq) |->
                  buildAdjacencyDatabase(adjacencies, state, areaSeq[j])]
     /\ Finish(OpArg("getAdjacencies", "", NoArg, "", selectAreas), NoPeerUpdate,
               Effect(advertiseAdjacenciesThrottled), <<>>, <<>>, 0)
     /\ UNCHANGED <<config, adjacencies, peers, state, interfaces, ifIndexToName,
                    adjHoldTimer, advertiseAdjacenciesThrottled,
                    advertiseIfaceAddrThrottled, advertiseIfaceAddrTimer, aborted,
                    throttledPending>>

\* The event loop runs the closure at the head of its queue
RunClosure ==
  /\ rpc.pending # <<>>
  /\ LET c == Head(rpc.pending)
     IN \/ c.op = "setNodeOverload" /\ SetNodeOverload(c.arg)
        \/ c.op = "setInterfaceOverload" /\ SetInterfaceOverload(c.iface, c.arg)
        \/ c.op = "setLinkMetric" /\ SetLinkMetric(c.iface, c.arg)
        \/ c.op = "setAdjacencyMetric" /\ SetAdjacencyMetric(c.iface, c.node, c.arg)
        \/ c.op = "getInterfaces" /\ GetInterfaces
        \/ c.op = "getAdjacencies" /\ GetAdjacencies(c.arg)

InitRpc == InitWith(Configs({FALSE}))

NextRpc ==
  \/ \E name \in RpcNames, vlogIsOn \in BOOLEAN : RpcCall(RpcCallOf(name), vlogIsOn)
  \/ RunClosure
  \/ NeighborUp("NEIGHBOR_UP", "node-b", Eth2, "area2", "fe80::1", SmallRtt)
  \/ LinkEvent(Eth2, Eth2Index, TRUE)

SpecRpc == InitRpc /\ [][NextRpc]_vars

-----------------------------------------------------------------------------
(* C34 *)

\* C34: every access an RPC makes to interfaces_, adjacencies_ or state_ is
\* made on the event loop's thread.
C34_StateOnLoopThreadOnly ==
  \A a \in rpc.accesses : a.thread = "evb"

-----------------------------------------------------------------------------
(* Advertisement as seen in the KvStores of both areas: node-c over eth10 in *)
(* area1, node-b over eth2 in area2                                          *)

InitAdv == InitObserving(Configs({FALSE}), {EmptyMap}, Areas)

NextAdv ==
  \/ NeighborUp("NEIGHBOR_UP", "node-c", Eth10, "area1", "fe80::1", SmallRtt)
  \/ NeighborUp("NEIGHBOR_UP", "node-b", Eth2, "area2", "fe80::1", SmallRtt)
  \/ NeighborDown("node-b", Eth2, "area2")
  \/ LinkEvent(Eth2, Eth2Index, TRUE)
  \/ \E isOverloaded \in BOOLEAN : SetInterfaceOverload(Eth2, isOverloaded)
  \/ \E m \in {NoMetric, <<7>>} : SetAdjacencyMetric(Eth10, "node-c", m)
  \/ AdjHoldTimerExpired
  \/ AdjThrottleFired

\* The event base runs the callback of a timer that has expired; events and
\* commands come as they come
SpecAdv ==
  InitAdv /\ [][NextAdv]_vars /\ WF_vars(AdjHoldTimerExpired) /\ WF_vars(AdjThrottleFired)

-----------------------------------------------------------------------------
(* C35 *)

\* The adj:<node> value in the KvStore of `area` is not the database of the
\* adjacencies and state_ of this moment
Stale(area) ==
  adjDbInKvStore[area] # <<buildAdjacencyDatabase(adjacencies, state, area)>>

\* C35: whenever the value of adj:<node> in an area's KvStore differs from the
\* area's current database, a later state has them equal, with no other help
\* than the timers that are scheduled.
C35_EventuallyAdvertised ==
  \A area \in Areas : Stale(area) ~> ~Stale(area)

-----------------------------------------------------------------------------
(* C36 *)

\* peers_ of an area as sessions: its node names with their peer specs
PeerTable(area) == {<<n, peers[area][n].tPeerSpec>> : n \in DOMAIN peers[area]}

\* C36: the requests replayed in order onto an empty table give, after every
\* handler run, LinkMonitor's own peer table of each area; a run pushes at most
\* one request per area, and each request pushed has an add or a delete and
\* names no node in both.
C36_PeerRequestsAreLog ==
  /\ [](~aborted => \A area \in Areas : kvPeerSessions[area] = PeerTable(area))
  /\ [][LET queue == emitted'.peerUpdatesQueue
        IN /\ \A j \in 1..Len(queue) :
                /\ queue[j].peerDelParams \cup DOMAIN queue[j].peerAddParams # {}
                /\ queue[j].peerDelParams \cap DOMAIN queue[j].peerAddParams = {}
           /\ \A j1, j2 \in 1..Len(queue) :
                queue[j1].area = queue[j2].area => j1 = j2]_vars

\* With node-b up on eth10 and eth2 in area1, the link on the smaller name
\* went down: the request replaced the peer's spec, in the log as in peers_
C36_Witness ==
  /\ lastOp.op = "NEIGHBOR_DOWN"
  /\ Len(emitted.peerUpdatesQueue) = 1
  /\ emitted.peerUpdatesQueue[1].peerDelParams = {}
  /\ DOMAIN emitted.peerUpdatesQueue[1].peerAddParams = {"node-b"}
  /\ DOMAIN peers["area1"] = {"node-b"}
  /\ kvPeerSessions["area1"] = PeerTable("area1")
  /\ \E k \in DOMAIN adjacencies : k[1] = "node-b" /\ adjacencies[k].area = "area1"

-----------------------------------------------------------------------------
(* C37 *)

\* The specs recorded in peers_ of an area, by node name
PeerSpecsOf(area) == [n \in DOMAIN peers[area] |-> peers[area][n].tPeerSpec]

\* C37: after every neighbor event, peers_ of every area, not only of the area
\* the event names, equals the peers derived from the adjacencies of that area.
C37_PeersFollowAdjacencies ==
  \A area \in Areas :
    PeerSpecsOf(area) = getPeersFromAdjacencies(adjacencies, area)

-----------------------------------------------------------------------------
(* C38 *)

\* C38: the CHECK on the up peers never fails: after every neighborUpEvent the
\* node of the event is a key of the recomputed peer table of the event's area.
C38_UpPeerIsPeer ==
  /\ [](~aborted)
  /\ [][HandlerRan(NeighborUpTypes) =>
          lastOp'.node \in DOMAIN peers'[lastOp'.area]]_vars

\* node-b came up on eth2 while its adjacency on eth10, the smaller name, is
\* up in the same area: the peer keeps the spec of eth10 and nothing is pushed
C38_Witness ==
  /\ lastOp.op = "NEIGHBOR_UP"
  /\ lastOp.node = "node-b" /\ lastOp.iface = Eth2
  /\ <<"node-b", Eth10>> \in DOMAIN adjacencies
  /\ <<"node-b", Eth2>> \in DOMAIN adjacencies
  /\ adjacencies[<<"node-b", Eth10>>].area = lastOp.area
  /\ ~adjacencies[<<"node-b", Eth10>>].isRestarting
  /\ "node-b" \in DOMAIN peers[lastOp.area]
  /\ peers[lastOp.area]["node-b"].tPeerSpec = adjacencies[<<"node-b", Eth10>>].peerSpec
  /\ peers[lastOp.area]["node-b"].tPeerSpec # adjacencies[<<"node-b", Eth2>>].peerSpec
  /\ emitted.peerUpdatesQueue = <<>>
  /\ ~aborted

-----------------------------------------------------------------------------
(* getRetryTimeOnUnstableInterfaces *)

\* Largest remaining backoff, in ms, of an interface in the calls below
MaxRemain == 3

\* The interfaces of a call
RetryIfNames == {Eth1, Eth10, Eth2}

\* An interface entry with its remaining backoff; it is in backoff while some
\* of it remains
BackoffEntries ==
  {[isUp |-> up, inBackoff |-> remain > 0, remainMs |-> remain] :
     up \in BOOLEAN, remain \in 0..MaxRemain}

\* interface.getBackoffDuration()
getBackoffDuration(entry) == entry.remainMs

\* interfaces_ and linkflapMaxBackoff_ at a call
RetryCalls ==
  {[interfaces |-> ifs, linkflapMaxBackoff |-> cap] :
     ifs \in [RetryIfNames -> BackoffEntries], cap \in 1..MaxRemain}

RECURSIVE getRetryTimeLoop(_, _, _, _)
\* The loop over interfaces_, in iteration order `order`
getRetryTimeLoop(ifs, linkflapMaxBackoff, order, minRemainMs) ==
  IF order = <<>> THEN minRemainMs
  ELSE LET interface == ifs[Head(order)]
           curRemainMs == getBackoffDuration(interface)
       IN IF isActive(interface)
          THEN getRetryTimeLoop(ifs, linkflapMaxBackoff, Tail(order), minRemainMs)
          ELSE IF curRemainMs > 0
          THEN getRetryTimeLoop(ifs, linkflapMaxBackoff, Tail(order),
                                IF linkflapMaxBackoff < curRemainMs
                                THEN linkflapMaxBackoff ELSE curRemainMs)
          ELSE getRetryTimeLoop(ifs, linkflapMaxBackoff, Tail(order), minRemainMs)

getRetryTimeOnUnstableInterfaces(ifs, linkflapMaxBackoff, order) ==
  getRetryTimeLoop(ifs, linkflapMaxBackoff, order, 0)

InitRetry == InitCalls(RetryCalls)

\* One call on args, interfaces_ iterated in `order`
GetRetryTimeCall(order) ==
  Returned("getRetryTimeOnUnstableInterfaces",
           [retryTime |-> getRetryTimeOnUnstableInterfaces(
                            args.interfaces, args.linkflapMaxBackoff, order)])

NextRetry == \E order \in Perms(RetryIfNames) : GetRetryTimeCall(order)

SpecRetry == InitRetry /\ [][NextRetry]_vars

-----------------------------------------------------------------------------
(* C39 *)

\* The positive remaining backoffs of the inactive interfaces of a call
RemainingBackoffs(call) ==
  {call.interfaces[n].remainMs :
     n \in {m \in DOMAIN call.interfaces :
              /\ ~isActive(call.interfaces[m])
              /\ call.interfaces[m].remainMs > 0}}

\* The smallest of them, capped at the maximum link-flap backoff; 0 if none
SmallestRemaining(call) ==
  IF RemainingBackoffs(call) = {} THEN 0
  ELSE LET least == CHOOSE r \in RemainingBackoffs(call) :
                      \A q \in RemainingBackoffs(call) : r <= q
       IN IF call.linkflapMaxBackoff < least THEN call.linkflapMaxBackoff ELSE least

\* C39: getRetryTimeOnUnstableInterfaces returns the smallest positive
\* remaining backoff among the inactive interfaces, capped at the maximum
\* link-flap backoff, and 0 when no interface is in backoff, in whatever order
\* the interface table is iterated.
C39_SmallestRemainingBackoff ==
  [][HandlerRan({"getRetryTimeOnUnstableInterfaces"}) =>
       ret'.retryTime = SmallestRemaining(args)]_vars

-----------------------------------------------------------------------------
(* The platform agent: main() of LinuxPlatformMain.cpp and the threads it starts *)

NlThread == "NetlinkProtolSocketEvl"
SystemThread == "SystemService"
FibThread == "FibService"
AgentThreads == {NlThread, SystemThread, FibThread}

\* The threads emplaced in allThreads so far
Started(agent) == {agent.allThreads[j] : j \in 1..Len(agent.allThreads)}

\* One step of main() or of one of its threads; LinkMonitor is another process
AgentStep(agent) ==
  /\ platformAgent' = agent
  /\ UNCHANGED <<config, adjacencies, peers, state, interfaces, ifIndexToName,
                 adjHoldTimer, advertiseAdjacenciesThrottled,
                 advertiseIfaceAddrThrottled, advertiseIfaceAddrTimer,
                 kvStoreKeys, kvPeerSessions, aborted, lastOp, emitted,
                 throttledPending, ret, stepParity, promise, args, kvVars,
                 fibers, interfaceDbSync, rpc, adjDbInKvStore>>

\* folly::init parses the command line; both flags default to true
ParseFlags(systemHandler, fibHandler) ==
  /\ platformAgent.pc = "init"
  /\ AgentStep([platformAgent EXCEPT
                  !.enable_netlink_system_handler = systemHandler,
                  !.enable_netlink_fib_handler = fibHandler,
                  !.pc = "startNlEvb"])

\* allThreads.emplace_back(std::thread(... nlEvb->loopForever() ...))
StartNlEvbThread ==
  /\ platformAgent.pc = "startNlEvb"
  /\ AgentStep([platformAgent EXCEPT
                  !.allThreads = Append(@, NlThread),
                  !.pc = "waitUntilRunning"])

\* nlEvb->waitUntilRunning() returns once the loop of the thread runs
WaitUntilRunning ==
  /\ platformAgent.pc = "waitUntilRunning"
  /\ NlThread \in platformAgent.running
  /\ AgentStep([platformAgent EXCEPT !.pc = "startSystem"])

\* if (FLAGS_enable_netlink_system_handler): start the SystemService thread
StartSystemThread ==
  /\ platformAgent.pc = "startSystem"
  /\ AgentStep([platformAgent EXCEPT
                  !.allThreads = IF platformAgent.enable_netlink_system_handler
                                 THEN Append(@, SystemThread) ELSE @,
                  !.pc = "startFib"])

\* if (FLAGS_enable_netlink_fib_handler): start the FibService thread
StartFibThread ==
  /\ platformAgent.pc = "startFib"
  /\ AgentStep([platformAgent EXCEPT
                  !.allThreads = IF platformAgent.enable_netlink_fib_handler
                                 THEN Append(@, FibThread) ELSE @,
                  !.pc = "mainEventLoop"])

\* mainEventLoop.run() returns on SIGINT, SIGQUIT or SIGTERM
MainEventLoopStopped ==
  /\ platformAgent.pc = "mainEventLoop"
  /\ AgentStep([platformAgent EXCEPT !.pc = "terminateNlEvb"])

\* nlEvb->terminateLoopSoon()
TerminateLoopSoon ==
  /\ platformAgent.pc = "terminateNlEvb"
  /\ AgentStep([platformAgent EXCEPT
                  !.stopRequested = @ \cup {NlThread},
                  !.pc = "stopFib"])

\* if (FLAGS_enable_netlink_fib_handler) linuxFibAgentServer.stop()
StopFibServer ==
  /\ platformAgent.pc = "stopFib"
  /\ AgentStep([platformAgent EXCEPT
                  !.stopRequested = IF platformAgent.enable_netlink_fib_handler
                                    THEN @ \cup {FibThread} ELSE @,
                  !.pc = "stopSystem"])

\* Variant of the shutdown that joins whether or not the system handler is
\* enabled
StopSystemServerJoinAlways ==
  /\ platformAgent.pc = "stopSystem"
  /\ AgentStep([platformAgent EXCEPT
                  !.stopRequested = IF platformAgent.enable_netlink_system_handler
                                    THEN @ \cup {SystemThread} ELSE @,
                  !.pc = "join"])

\* if (FLAGS_enable_netlink_system_handler) { systemServiceServer.stop(); and
\* the join loop }: without the flag main() goes on to its return
StopSystemServer ==
  /\ platformAgent.pc = "stopSystem"
  /\ AgentStep([platformAgent EXCEPT
                  !.stopRequested = IF platformAgent.enable_netlink_system_handler
                                    THEN @ \cup {SystemThread} ELSE @,
                  !.pc = IF platformAgent.enable_netlink_system_handler
                         THEN "join" ELSE "return"])

\* for (auto& t : allThreads) t.join(): the next thread, once its body returned
JoinThread ==
  /\ platformAgent.pc = "join"
  /\ \E j \in 1..Len(platformAgent.allThreads) :
       LET t == platformAgent.allThreads[j]
       IN /\ t \notin platformAgent.joined
          /\ \A k \in 1..(j - 1) : platformAgent.allThreads[k] \in platformAgent.joined
          /\ t \in platformAgent.finished
          /\ AgentStep([platformAgent EXCEPT !.joined = @ \cup {t}])

\* The join loop is over
JoinedAll ==
  /\ platformAgent.pc = "join"
  /\ Started(platformAgent) \subseteq platformAgent.joined
  /\ AgentStep([platformAgent EXCEPT !.pc = "return"])

\* return 0 destroys allThreads: the destructor of a joinable std::thread
\* calls std::terminate
ReturnFromMain ==
  /\ platformAgent.pc = "return"
  /\ AgentStep([platformAgent EXCEPT
                  !.exit = IF Started(platformAgent) \subseteq platformAgent.joined
                           THEN "normal" ELSE "terminate",
                  !.pc = "done"])

\* The body of a started thread enters loopForever() or serve()
ThreadRuns(t) ==
  /\ platformAgent.pc # "done"
  /\ t \in Started(platformAgent)
  /\ t \notin platformAgent.running \cup platformAgent.finished
  /\ AgentStep([platformAgent EXCEPT !.running = @ \cup {t}])

\* loopForever() or serve() returns after the stop was requested
ThreadFinishes(t) ==
  /\ platformAgent.pc # "done"
  /\ t \in platformAgent.running
  /\ t \in platformAgent.stopRequested
  /\ AgentStep([platformAgent EXCEPT
                  !.running = @ \ {t}, !.finished = @ \cup {t}])

InitAgent == InitCalls({EmptyMap})

NextAgent ==
  \/ \E systemHandler, fibHandler \in BOOLEAN : ParseFlags(systemHandler, fibHandler)
  \/ StartNlEvbThread
  \/ WaitUntilRunning
  \/ StartSystemThread
  \/ StartFibThread
  \/ MainEventLoopStopped
  \/ TerminateLoopSoon
  \/ StopFibServer
  \/ StopSystemServer
  \/ JoinThread
  \/ JoinedAll
  \/ ReturnFromMain
  \/ \E t \in AgentThreads : ThreadRuns(t)
  \/ \E t \in AgentThreads : ThreadFinishes(t)

SpecAgent == InitAgent /\ [][NextAgent]_vars

-----------------------------------------------------------------------------
(* C40 *)

\* C40: for every combination of the two flags, when main() has returned
\* every thread it started has been stopped and joined and the process ended
\* normally.
C40_EveryThreadJoined ==
  platformAgent.pc = "done" =>
    /\ Started(platformAgent) \subseteq platformAgent.joined
    /\ platformAgent.exit = "normal"

====
